---- MODULE Spec2Model ----
(***************************************************************************)
(* Model of the MELSEC MC-protocol mock server (melsec_mc_mock):           *)
(*   - the device store (device_map.rs),                                   *)
(*   - the request handler (handler.rs),                                   *)
(*   - the TCP listener's per-connection loop (server.rs).                 *)
(* Bytes are naturals 0..255, byte strings are sequences of bytes.         *)
(***************************************************************************)
EXTENDS Integers, Sequences, FiniteSets, TLC

VARIABLES
    store,      \* DeviceMap.inner: device code -> word vector
    registry,   \* CommandRegistry::global().is_some()
    hphase,     \* direct handler calls: "idle" | "one" | "two"
    hprev,      \* the handler call before the last one
    hlast,      \* the last handler call: body, result, store before it
    listener,   \* run_listener_on: "accepting" | "stopped"
    pc,         \* per connection: position of the connection task
    wire,       \* per connection: bytes sent by the peer, not yet read
    fin,        \* per connection: the peer has closed its sending side
    tosend,     \* per connection: rest of the frame the peer is sending
    nsent,      \* number of frames the peers have started to send
    acc,        \* per connection: the accumulator `acc`
    cur,        \* per connection: the frame drained last and its request
    resp,       \* per connection: resp_data of the frame being answered
    outs,       \* per connection: byte strings try_write accepted, in order
    hist,       \* per connection: one entry per frame drained from acc
    sent,       \* per connection: the frames the peer has sent, in order
    cause,      \* per connection: why the connection task returned
    before,     \* per connection: the connections closed when it was accepted
    app         \* the GUI backend's AppState: mock_handles, the spawned
                \* listener tasks and the start_mock calls in progress

vars == << store, registry, hphase, hprev, hlast, listener, pc, wire, fin,
           tosend, nsent, acc, cur, resp, outs, hist, sent, cause, before, app >>

hvars == << hphase, hprev, hlast >>
cvars == << listener, pc, wire, fin, tosend, nsent, acc, cur, resp, outs,
            hist, sent, cause, before >>

----------------------------------------------------------------------------
(* Bounds of the model                                                     *)

MaxConns == 2
MaxFrames == 2
MaxWords == 2

Conns == 1 .. MaxConns

\* word values a request carries: 0, values below and above the word count
WordVals == {0, 1, 4660}
\* start_mock calls
MaxCalls == 3
Calls == 1 .. MaxCalls
\* start addresses of requests
Addrs == {0, 1}
\* device codes of requests: D (0xA8) and a code below 2
DevCodes == {168, 1}

----------------------------------------------------------------------------
(* Little-endian byte helpers                                              *)

U16LE(n) == << n % 256, (n \div 256) % 256 >>
U24LE(n) == << n % 256, (n \div 256) % 256, (n \div 65536) % 256 >>
U32LE(n) == << n % 256, (n \div 256) % 256, (n \div 65536) % 256,
               (n \div 16777216) % 256 >>

\* data[i] with Rust's 0-based index
At(data, i) == data[i + 1]

u16_from_le_bytes(b0, b1) == b0 + 256 * b1

\* &data[from..] with Rust's 0-based index
Tail_from(data, from) == SubSeq(data, from + 1, Len(data))

\* the words of a word list as little-endian bytes (w.to_le_bytes() of each)
WordsLE(ws) ==
    CHOOSE bytes \in { [i \in 1 .. 2 * Len(w) |->
                           IF i % 2 = 1 THEN w[(i + 1) \div 2] % 256
                           ELSE (w[i \div 2] \div 256) % 256] : w \in {ws \o << >>} } : TRUE

----------------------------------------------------------------------------
(* Device store (device_map.rs).  A vector is kept as its length and its   *)
(* non-zero words; every other index below the length holds 0.             *)
(* An address or length (usize) is the pair << n \div 2^24, n % 2^24 >>,   *)
(* which keeps 32-bit start addresses within TLC's 32-bit integers.        *)

Usize(n) == << 0, n >>
UAdd(a, i) == << a[1] + ((a[2] + i) \div 16777216), (a[2] + i) % 16777216 >>
ULess(a, b) == a[1] < b[1] \/ (a[1] = b[1] /\ a[2] < b[2])

NoWords == [a \in {} |-> 0]
DeviceMap_new == [k \in {} |-> 0]
EmptyVec == [len |-> Usize(0), nz |-> NoWords]

\* the key literal format!("0x{:02X}", code)
HexKey(code) == [form |-> "hex", code |-> code]

\* the forms a key string takes: a device symbol ("D"), a symbol followed by
\* an address ("D100"), "0x" followed by hex digits, decimal digits, and
\* anything else
SymKey(sym) == [form |-> "symbol", sym |-> sym]
CombKey(sym, num) == [form |-> "combined", sym |-> sym, num |-> num]
DecKey(code) == [form |-> "dec", code |-> code]
OtherKey == [form |-> "other"]

\* Device::device_code_q of the symbols D and ZR and of the timer and
\* counter sub-devices
device_code_q(sym) ==
    CASE sym = "D" -> 168 [] sym = "ZR" -> 176
      [] sym = "TS" -> 193 [] sym = "TN" -> 194 [] sym = "TC" -> 192
      [] sym = "STS" -> 199 [] sym = "STN" -> 200 [] sym = "STC" -> 198
      [] sym = "CTS" -> 196 [] sym = "CTN" -> 197 [] sym = "CTC" -> 195
      [] sym = "LTS" -> 81 [] sym = "LTN" -> 82 [] sym = "LTC" -> 80
      [] sym = "LSTS" -> 89 [] sym = "LSTN" -> 90 [] sym = "LSTC" -> 88
      [] sym = "LCTS" -> 85 [] sym = "LCTN" -> 86 [] sym = "LCTC" -> 84

\* a normalization that reads the digits of a decimal key as hex digits
normalize_decimal_as_hex(key, addr) ==
    IF key.form = "combined"
    THEN [key |-> HexKey(device_code_q(key.sym)),
          addr |-> IF addr = Usize(0) THEN Usize(key.num) ELSE addr]
    ELSE IF key.form = "symbol"
    THEN [key |-> HexKey(device_code_q(key.sym)), addr |-> addr]
    ELSE IF key.form = "hex" /\ key.code \in 0 .. 255
    THEN [key |-> HexKey(key.code), addr |-> addr]
    ELSE [key |-> HexKey(0), addr |-> addr]

\* a normalization that prefers the address of a combined key
normalize_prefers_parsed(key, addr) ==
    IF key.form = "combined"
    THEN [key |-> HexKey(device_code_q(key.sym)), addr |-> Usize(key.num)]
    ELSE IF key.form = "symbol"
    THEN [key |-> HexKey(device_code_q(key.sym)), addr |-> addr]
    ELSE IF key.form \in {"hex", "dec"} /\ key.code \in 0 .. 255
    THEN [key |-> HexKey(key.code), addr |-> addr]
    ELSE [key |-> HexKey(0), addr |-> addr]

\* normalize_key_addr: no override is registered; a combined key is parsed
\* by parse_device_and_address, a bare symbol by device_by_symbol, then the
\* hex literal, the decimal literal (both u8), and the fallback code 0
normalize_key_addr(key, addr) ==
    IF key.form = "combined"
    THEN [key |-> HexKey(device_code_q(key.sym)),
          addr |-> IF addr = Usize(0) THEN Usize(key.num) ELSE addr]
    ELSE IF key.form = "symbol"
    THEN [key |-> HexKey(device_code_q(key.sym)), addr |-> addr]
    ELSE IF key.form = "hex" /\ key.code \in 0 .. 255
    THEN [key |-> HexKey(key.code), addr |-> addr]
    ELSE IF key.form = "dec" /\ key.code \in 0 .. 255
    THEN [key |-> HexKey(key.code), addr |-> addr]
    ELSE [key |-> HexKey(0), addr |-> addr]

\* code_val: u8::from_str_radix(&dkey[2..], 16).unwrap_or(0)
code_val(dkey) == IF dkey.code \in 0 .. 255 THEN dkey.code ELSE 0

has_key(s, key) == code_val(normalize_key_addr(key, Usize(0)).key) \in DOMAIN s

VecGet(vec, a) == IF a \in DOMAIN vec.nz THEN vec.nz[a] ELSE 0

\* a write that returns early on an empty word list, before the entry for
\* the device is made
set_words_skips_empty(s, key, addr, words) ==
    LET na == normalize_key_addr(key, addr)
        dk == code_val(na.key)
        old == IF dk \in DOMAIN s THEN s[dk] ELSE EmptyVec
        n == Len(words)
        end == UAdd(na.addr, n)
        newlen == IF ULess(old.len, end) THEN end ELSE old.len
        at(i) == UAdd(na.addr, i - 1)
        rng == {at(i) : i \in 1 .. n}
        keep == {a \in DOMAIN old.nz : a \notin rng}
        put == {at(i) : i \in {j \in 1 .. n : words[j] # 0}}
        idx(a) == CHOOSE i \in 1 .. n : at(i) = a
        vec == [len |-> newlen,
                nz |-> [a \in keep \cup put |->
                          IF a \in put THEN words[idx(a)] ELSE old.nz[a]]]
    IN IF n = 0 THEN s
       ELSE [k \in DOMAIN s \cup {dk} |-> IF k = dk THEN vec ELSE s[k]]

\* a read that fills the indexes past the end of the stored vector with
\* 0xFFFF
get_words_tail_ffff(s, key, addr, count) ==
    LET na == normalize_key_addr(key, addr)
        dk == code_val(na.key)
    IN IF count = 0 THEN << >>
       ELSE IF dk \in DOMAIN s
            THEN [i \in 1 .. count |->
                    IF ULess(UAdd(na.addr, i - 1), s[dk].len)
                    THEN VecGet(s[dk], UAdd(na.addr, i - 1)) ELSE 65535]
            ELSE [i \in 1 .. count |-> 0]

\* a write that always resizes the vector to the end of the written range
set_words_resizes_to_end(s, key, addr, words) ==
    LET na == normalize_key_addr(key, addr)
        dk == code_val(na.key)
        old == IF dk \in DOMAIN s THEN s[dk] ELSE EmptyVec
        n == Len(words)
        end == UAdd(na.addr, n)
        at(i) == UAdd(na.addr, i - 1)
        rng == {at(i) : i \in 1 .. n}
        keep == {a \in DOMAIN old.nz : a \notin rng /\ ULess(a, end)}
        put == {at(i) : i \in {j \in 1 .. n : words[j] # 0}}
        idx(a) == CHOOSE i \in 1 .. n : at(i) = a
        vec == [len |-> end,
                nz |-> [a \in keep \cup put |->
                          IF a \in put THEN words[idx(a)] ELSE old.nz[a]]]
    IN [k \in DOMAIN s \cup {dk} |-> IF k = dk THEN vec ELSE s[k]]

set_words(s, key, addr, words) ==
    LET na == normalize_key_addr(key, addr)
        dk == code_val(na.key)
        old == IF dk \in DOMAIN s THEN s[dk] ELSE EmptyVec
        n == Len(words)
        end == UAdd(na.addr, n)
        newlen == IF ULess(old.len, end) THEN end ELSE old.len
        at(i) == UAdd(na.addr, i - 1)
        rng == {at(i) : i \in 1 .. n}
        keep == {a \in DOMAIN old.nz : a \notin rng}
        put == {at(i) : i \in {j \in 1 .. n : words[j] # 0}}
        idx(a) == CHOOSE i \in 1 .. n : at(i) = a
        vec == [len |-> newlen,
                nz |-> [a \in keep \cup put |->
                          IF a \in put THEN words[idx(a)] ELSE old.nz[a]]]
    IN [k \in DOMAIN s \cup {dk} |-> IF k = dk THEN vec ELSE s[k]]

get_words(s, key, addr, count) ==
    LET na == normalize_key_addr(key, addr)
        dk == code_val(na.key)
    IN IF count = 0 THEN << >>
       ELSE IF dk \in DOMAIN s
            THEN [i \in 1 .. count |-> VecGet(s[dk], UAdd(na.addr, i - 1))]
            ELSE [i \in 1 .. count |-> 0]

----------------------------------------------------------------------------
(* Request handler (handler.rs)                                            *)

CMD_READ == 1025      \* 0x0401
CMD_WRITE == 5121     \* 0x1401
CMD_WRITE_EXT == 5123 \* 0x1403
CMD_ECHO == 1561      \* 0x0619
ECHO_MAX == 960

NoParams == [some |-> FALSE, start |-> Usize(0), device |-> 0, count |-> 0, off |-> 0]

\* the closure read_start_and_device_and_count
read_start_and_device_and_count(data, command, sub) ==
    LET has4 == Len(data) >= 12
        has3 == Len(data) >= 10
        s4 == << At(data, 7), At(data, 4) + 256 * At(data, 5) + 65536 * At(data, 6) >>
        d4 == u16_from_le_bytes(At(data, 8), At(data, 9))
        c4 == u16_from_le_bytes(At(data, 10), At(data, 11))
        s3 == Usize(At(data, 4) + 256 * At(data, 5) + 65536 * At(data, 6))
        d3 == At(data, 7)
        c3 == u16_from_le_bytes(At(data, 8), At(data, 9))
        mc4 == [some |-> TRUE, start |-> s4, device |-> d4, count |-> c4, off |-> 12]
        mc3 == [some |-> TRUE, start |-> s3, device |-> d3, count |-> c3, off |-> 10]
        is_bit_write == (command = CMD_WRITE \/ command = CMD_WRITE_EXT)
                          /\ (sub = 1 \/ sub = 3)
        exp4 == IF is_bit_write THEN (c4 + 1) \div 2 ELSE c4 * 2
        exp3 == IF is_bit_write THEN (c3 + 1) \div 2 ELSE c3 * 2
        fits4 == Len(data) >= 12 + exp4
        fits3 == Len(data) >= 10 + exp3
    IN IF has4 /\ has3
       THEN IF fits4 /\ ~fits3 THEN mc4
            ELSE IF fits3 /\ ~fits4 THEN mc3
            ELSE mc4
       ELSE IF has3 THEN mc3
       ELSE NoParams

\* format!("0x{:02X}", u8::try_from(device_code).unwrap_or(0u8))
key_literal(device_code) == HexKey(IF device_code <= 255 THEN device_code ELSE 0)

\* a range check that lets 'G' through
is_hex_digit_through_G(b) ==
    \/ b \in 48 .. 57
    \/ b \in 65 .. 71
    \/ b \in 97 .. 102

is_hex_digit(b) ==
    \/ b \in 48 .. 57      \* '0'..'9'
    \/ b \in 65 .. 70      \* 'A'..'F'
    \/ b \in 97 .. 102     \* 'a'..'f'

\* the words of a write-words payload: u16::from_le_bytes of each pair
payload_words(data, off, count) ==
    [i \in 1 .. count |->
        u16_from_le_bytes(At(data, off + (i - 1) * 2), At(data, off + (i - 1) * 2 + 1))]

\* the bools of a write-bits payload, nibble-packed high nibble first
payload_bools(data, off, count) ==
    LET payload == Tail_from(data, off)
    IN [i \in 1 .. count |->
          LET byte_idx == (i - 1) \div 2
          IN IF byte_idx >= Len(payload) THEN 0
             ELSE LET b == At(payload, byte_idx)
                      val == IF (i - 1) % 2 = 0 THEN (b \div 16) % 16 ELSE b % 16
                  IN IF val # 0 THEN 1 ELSE 0]

\* for (i, v) in bools.iter().enumerate() { s.set_words(key, start + i, &[*v]) }
RECURSIVE set_each(_, _, _, _, _)
set_each(s, key, start, bools, i) ==
    IF i > Len(bools) THEN s
    ELSE set_each(set_words(s, key, UAdd(start, i - 1), << bools[i] >>), key, start, bools, i + 1)

\* read bits: one byte per pair of points, high nibble first
read_nibbles(s, key, start, count) ==
    LET nbytes == (count + 1) \div 2
        bit(a) == IF get_words(s, key, a, 1)[1] # 0 THEN 1 ELSE 0
    IN [j \in 1 .. nbytes |->
          LET i == 2 * (j - 1)
              hi == bit(UAdd(start, i))
              lo == IF i + 1 < count THEN bit(UAdd(start, i + 1)) ELSE 0
          IN hi * 16 + lo]

HOk(payload, s, r, w) == [ok |-> TRUE, payload |-> payload, store |-> s, rlocks |-> r, wlocks |-> w]
HErr(s) == [ok |-> FALSE, payload |-> << >>, store |-> s, rlocks |-> 0, wlocks |-> 0]

\* the echo special case (0x0619 / 0x0000)
handle_echo(s, data) ==
    LET payload == Tail_from(data, 4)
        len == Len(payload)
    IN IF ~(len >= 1 /\ len <= ECHO_MAX) THEN HErr(s)
       ELSE IF \E i \in 1 .. len : ~is_hex_digit(payload[i]) THEN HErr(s)
       ELSE HOk(payload, s, 0, 0)

\* read words: the fallback arm and the registry's BlockWords entry
handle_read_words(s, p) ==
    IF p.some
    THEN HOk(WordsLE(get_words(s, key_literal(p.device), p.start, p.count)), s, 1, 0)
    ELSE HOk(<< >>, s, 0, 0)

\* read bits: the fallback arm and the registry's BlockNibbles entry
handle_read_bits(s, p) ==
    IF p.some
    THEN HOk(read_nibbles(s, key_literal(p.device), p.start, p.count), s, p.count, 0)
    ELSE HOk(<< >>, s, 0, 0)

\* a write that stores the words the payload does carry before it fails
handle_write_words_partial(s, reg, data, p) ==
    IF ~p.some THEN HOk(<< >>, s, 0, 0)
    ELSE IF Len(data) >= p.off + p.count * 2
         THEN HOk(<< >>,
                  set_words(s, key_literal(p.device), p.start,
                            payload_words(data, p.off, p.count)), 0, 1)
         ELSE IF reg THEN HOk(<< >>, s, 0, 0)
              ELSE HErr(set_words(s, key_literal(p.device), p.start,
                                  payload_words(data, p.off, (Len(data) - p.off) \div 2)))

\* write words: registry fast path (a short payload falls through to the
\* response builder, which has no response entries) and fallback arm (a
\* short payload is an error)
handle_write_words(s, reg, data, p) ==
    IF ~p.some THEN HOk(<< >>, s, 0, 0)
    ELSE IF Len(data) >= p.off + p.count * 2
         THEN HOk(<< >>,
                  set_words(s, key_literal(p.device), p.start,
                            payload_words(data, p.off, p.count)), 0, 1)
         ELSE IF reg THEN HOk(<< >>, s, 0, 0) ELSE HErr(s)

\* write bits: the same on both paths
handle_write_bits(s, data, p) ==
    IF ~p.some THEN HOk(<< >>, s, 0, 0)
    ELSE HOk(<< >>,
             set_each(s, key_literal(p.device), p.start,
                      payload_bools(data, p.off, p.count), 1), 0, 1)

handle_request_and_apply_store(s, reg, data) ==
    IF Len(data) < 4 THEN HErr(s)
    ELSE LET command == u16_from_le_bytes(At(data, 0), At(data, 1))
             sub == u16_from_le_bytes(At(data, 2), At(data, 3))
             p == read_start_and_device_and_count(data, command, sub)
         IN IF command = CMD_ECHO /\ sub = 0 THEN handle_echo(s, data)
            ELSE IF command = CMD_READ /\ sub \in {0, 2} THEN handle_read_words(s, p)
            ELSE IF command = CMD_READ /\ sub \in {1, 3} THEN handle_read_bits(s, p)
            ELSE IF command = CMD_WRITE /\ sub \in {0, 2} THEN handle_write_words(s, reg, data, p)
            ELSE IF command = CMD_WRITE /\ sub \in {1, 3} THEN handle_write_bits(s, data, p)
            ELSE HOk(<< >>, s, 0, 0)

----------------------------------------------------------------------------
(* Request bodies as the clients build them                                *)

\* Q-series body: command, subcommand, 3-byte start, 1-byte device code,
\* count, data.  R-series body: 4-byte start, 2-byte device code.
BodyHeader(layout, command, sub, dev, addr, count) ==
    IF layout = "Q"
    THEN U16LE(command) \o U16LE(sub) \o U24LE(addr) \o << dev >> \o U16LE(count)
    ELSE U16LE(command) \o U16LE(sub) \o U32LE(addr) \o U16LE(dev) \o U16LE(count)

BodyWriteWords(layout, dev, addr, ws) ==
    BodyHeader(layout, CMD_WRITE, 0, dev, addr, Len(ws)) \o WordsLE(ws)

BodyReadWords(layout, dev, addr, count) ==
    BodyHeader(layout, CMD_READ, 0, dev, addr, count)

BodyEcho(payload) == U16LE(CMD_ECHO) \o U16LE(0) \o payload

Fill(b, n) == IF n = 0 THEN << >> ELSE [i \in 1 .. n |-> b]

WordLists == UNION {[1 .. n -> WordVals] : n \in 1 .. MaxWords}
Layouts == {"Q", "R"}

\* bytes around the three hex-digit ranges: '/', '0', '9', ':', '@', 'A',
\* 'F', 'G', '`', 'a', 'f', 'g'
EchoBytes == {47, 48, 57, 58, 64, 65, 70, 71, 96, 97, 102, 103}

EchoPayloads ==
    {<< >>} \cup {<< b >> : b \in EchoBytes}
      \cup {<< 65, b >> : b \in EchoBytes} \cup {<< b, 49 >> : b \in EchoBytes}
      \cup {Fill(65, ECHO_MAX - 1), Fill(65, ECHO_MAX), Fill(65, ECHO_MAX + 1),
            Fill(65, ECHO_MAX - 1) \o << 71 >>}

WriteRequests ==
    {[kind |-> "write", layout |-> l, dev |-> d, addr |-> a, words |-> ws,
      body |-> BodyWriteWords(l, d, a, ws)] :
        l \in Layouts, d \in DevCodes, a \in Addrs, ws \in WordLists}

\* a read request's `words` holds its count
ReadRequests ==
    {[kind |-> "read", layout |-> l, dev |-> d, addr |-> a, words |-> << n >>,
      body |-> BodyReadWords(l, d, a, n)] :
        l \in Layouts, d \in DevCodes, a \in Addrs, n \in 1 .. MaxWords}

EchoRequests ==
    {[kind |-> "echo", layout |-> "Q", dev |-> 0, addr |-> 0, words |-> << >>,
      body |-> BodyEcho(p)] : p \in EchoPayloads}

\* bodies shorter than the command header
ShortRequests ==
    {[kind |-> "short", layout |-> "Q", dev |-> 0, addr |-> 0, words |-> << >>,
      body |-> b] : b \in {<< >>, << 1 >>, << 1, 4, 0 >>}}

Requests == WriteRequests \cup ReadRequests \cup EchoRequests \cup ShortRequests

NoCall == [req |-> [kind |-> "none", layout |-> "Q", dev |-> 0, addr |-> 0,
                    words |-> << >>, body |-> << >>],
           ok |-> TRUE, payload |-> << >>, pre |-> DeviceMap_new,
           rlocks |-> 0, wlocks |-> 0]

\* stores a sequence of set_words calls leaves behind
InitStores ==
    {DeviceMap_new,
     set_words(DeviceMap_new, HexKey(168), Usize(0), << 7, 7, 7 >>),
     set_words(set_words(DeviceMap_new, HexKey(1), Usize(1), << 9 >>),
               HexKey(0), Usize(0), << 5, 5 >>)}

----------------------------------------------------------------------------
(* The AppState of the GUI backend (src-tauri/src/lib.rs).  A start_mock   *)
(* call c owns two JoinHandles: TcpHandle(c) and UdpHandle(c).             *)

TcpHandle(c) == 2 * c - 1
UdpHandle(c) == 2 * c
Handles == 1 .. (2 * MaxCalls)

NoCallYet == [pc |-> "idle", udp |-> FALSE]

\* AppState::new: mock_handles is the empty Vec; nothing is spawned
AppState_new ==
    [mock_handles |-> {},
     task |-> [h \in Handles |-> "unspawned"],
     call |-> [c \in Calls |-> NoCallYet]]

----------------------------------------------------------------------------
(* Direct calls of the handler on a shared store, as the tests make them   *)

\* no connection has been accepted
ConnIdle ==
    /\ listener = "accepting"
    /\ pc = [c \in Conns |-> "free"]
    /\ wire = [c \in Conns |-> << >>]
    /\ fin = [c \in Conns |-> FALSE]
    /\ tosend = [c \in Conns |-> << >>]
    /\ nsent = 0
    /\ acc = [c \in Conns |-> << >>]
    /\ cur = [c \in Conns |-> << >>]
    /\ resp = [c \in Conns |-> << >>]
    /\ outs = [c \in Conns |-> << >>]
    /\ hist = [c \in Conns |-> << >>]
    /\ sent = [c \in Conns |-> << >>]
    /\ cause = [c \in Conns |-> "none"]
    /\ before = [c \in Conns |-> {}]

ConnInit == ConnIdle /\ app = AppState_new

InitH ==
    /\ store \in InitStores
    /\ registry \in BOOLEAN
    /\ hphase = "idle"
    /\ hprev = NoCall
    /\ hlast = NoCall
    /\ ConnInit

\* one call handle_request_and_apply_store(&store, &req).await; the
\* scenario is one call of any request, then one read request
HandlerCall(req) ==
    /\ \/ hphase = "idle"
       \/ hphase = "one" /\ req.kind \in {"read", "readbits"}
    /\ LET r == handle_request_and_apply_store(store, registry, req.body)
       IN /\ store' = r.store
          /\ hlast' = [req |-> req, ok |-> r.ok, payload |-> r.payload,
                       pre |-> store, rlocks |-> r.rlocks, wlocks |-> r.wlocks]
    /\ hprev' = hlast
    /\ hphase' = IF hphase = "idle" THEN "one" ELSE "two"
    /\ UNCHANGED << registry, app, cvars >>

NextH == \E req \in Requests : HandlerCall(req)

SpecH == InitH /\ [][NextH]_vars

----------------------------------------------------------------------------
(* Frame codec.  detect_frame, McRequest::try_from_payload and the request *)
(* frames belong to the melsec_mc crate; they follow the frame layouts of  *)
(* the specification.                                                      *)

MC_SUBHEADER_REQUEST == << 80, 0 >>      \* 0x50 0x00
MC_SUBHEADER_RESPONSE == << 208, 0 >>    \* 0xD0 0x00
AccessRoute_default == << 0, 255, 255, 3, 0 >>
err_code == 80                           \* 0x0050

\* MC4E request: subheader, serial, reserved, access route, data length,
\* monitoring timer, body
Mc4eRequest(serial, route, body) ==
    MC_SUBHEADER_REQUEST \o U16LE(serial) \o << 0, 0 >> \o route
      \o U16LE(Len(body) + 2) \o << 16, 0 >> \o body

\* MC3E request: access route, data length, monitoring timer, body
Mc3eRequest(route, body) ==
    route \o U16LE(Len(body) + 2) \o << 16, 0 >> \o body

\* a header that declares the data length 1
Mc4eBadLen(serial, route) ==
    MC_SUBHEADER_REQUEST \o U16LE(serial) \o << 0, 0 >> \o route \o U16LE(1) \o << 0, 0 >>
Mc3eBadLen(route) == route \o U16LE(1) \o << 0, 0 >>

IsMc4e(buf) == Len(buf) >= 2 /\ SubSeq(buf, 1, 2) = MC_SUBHEADER_REQUEST

\* detect_frame: "none" (need more bytes), "frame" (frame_len, header_len,
\* serial) once the header is present, "err" for a declared length below 2
detect_frame(buf) ==
    IF Len(buf) < 2 THEN [kind |-> "none", frame_len |-> 0, header_len |-> 0]
    ELSE IF IsMc4e(buf)
    THEN IF Len(buf) < 15 THEN [kind |-> "none", frame_len |-> 0, header_len |-> 15]
         ELSE LET dl == u16_from_le_bytes(At(buf, 11), At(buf, 12))
              IN IF dl < 2 THEN [kind |-> "err", frame_len |-> 0, header_len |-> 15]
                 ELSE [kind |-> "frame", frame_len |-> 13 + dl, header_len |-> 15]
    ELSE IF Len(buf) < 9 THEN [kind |-> "none", frame_len |-> 0, header_len |-> 9]
         ELSE LET dl == u16_from_le_bytes(At(buf, 5), At(buf, 6))
              IN IF dl < 2 THEN [kind |-> "err", frame_len |-> 0, header_len |-> 9]
                 ELSE [kind |-> "frame", frame_len |-> 7 + dl, header_len |-> 9]

\* the McRequest of a frame
McRequest(frame) ==
    IF IsMc4e(frame)
    THEN [serial_number |-> u16_from_le_bytes(At(frame, 2), At(frame, 3)),
          has_serial |-> TRUE,
          access_route |-> SubSeq(frame, 7, 11),
          monitoring_timer |-> u16_from_le_bytes(At(frame, 13), At(frame, 14)),
          request_data |-> Tail_from(frame, 15)]
    ELSE [serial_number |-> 0,
          has_serial |-> FALSE,
          access_route |-> SubSeq(frame, 1, 5),
          monitoring_timer |-> u16_from_le_bytes(At(frame, 7), At(frame, 8)),
          request_data |-> Tail_from(frame, 9)]

\* McRequest::try_from_payload: whether a request object can be built.  A
\* frame that carries command bytes gives a request; for a frame with an
\* empty body either outcome is allowed.
try_from_payload(frame) ==
    IF McRequest(frame).request_data = << >> THEN {TRUE, FALSE} ELSE {TRUE}

----------------------------------------------------------------------------
(* Response frames (server.rs)                                             *)

\* a detector that never finds the subheader
detect_format_without_subheader(frame) ==
    IF McRequest(frame).has_serial /\ ~IsMc4e(frame) THEN "MC4E" ELSE "MC3E"

detect_format_from_frame(frame) ==
    IF Len(frame) >= 2
         /\ (SubSeq(frame, 1, 2) = MC_SUBHEADER_REQUEST
               \/ SubSeq(frame, 1, 2) = MC_SUBHEADER_RESPONSE)
    THEN "MC4E"
    ELSE IF McRequest(frame).has_serial THEN "MC4E" ELSE "MC3E"

\* u16::try_from(resp_data.len() + 2).unwrap_or(2)
data_len_field(n) == IF n + 2 <= 65535 THEN n + 2 ELSE 2

build_mc_response_from_request(req, resp_data, format) ==
    IF format = "MC4E"
    THEN MC_SUBHEADER_RESPONSE \o U16LE(req.serial_number) \o U16LE(0)
           \o req.access_route \o U16LE(data_len_field(Len(resp_data)))
           \o U16LE(0) \o resp_data
    ELSE << 208, 0 >> \o req.access_route
           \o U16LE(data_len_field(Len(resp_data))) \o U16LE(0) \o resp_data

\* an error frame with end code 0x0000, as a normal response carries
error_frame_end_code_zero(buf) ==
    LET subheader == IF Len(buf) >= 2 THEN SubSeq(buf, 1, 2) ELSE << 80, 0 >>
        serial == IF Len(buf) >= 4 THEN u16_from_le_bytes(At(buf, 2), At(buf, 3)) ELSE 0
    IN IF subheader = MC_SUBHEADER_REQUEST
       THEN MC_SUBHEADER_RESPONSE \o U16LE(serial) \o U16LE(0)
              \o AccessRoute_default \o U16LE(2) \o U16LE(0)
       ELSE << 208, 0 >> \o AccessRoute_default \o U16LE(2) \o U16LE(0)

\* the error frame of the parse-failure branch: MC4E shape with the serial
\* of the drained frame when it starts with the request subheader, the shape
\* without serial otherwise
parse_error_frame(frame) ==
    LET subheader == IF Len(frame) >= 2 THEN SubSeq(frame, 1, 2) ELSE << 80, 0 >>
        serial == IF Len(frame) >= 4
                  THEN u16_from_le_bytes(At(frame, 2), At(frame, 3)) ELSE 0
    IN IF subheader = MC_SUBHEADER_REQUEST
       THEN MC_SUBHEADER_RESPONSE \o U16LE(serial) \o U16LE(0)
              \o AccessRoute_default \o U16LE(2) \o U16LE(err_code)
       ELSE << 208, 0 >> \o AccessRoute_default \o U16LE(2) \o U16LE(err_code)

\* the error frame of the detect_frame-error branch, built from the
\* accumulator in the same way
detect_error_frame(buf) ==
    LET subheader == IF Len(buf) >= 2 THEN SubSeq(buf, 1, 2) ELSE << 80, 0 >>
        serial == IF Len(buf) >= 4 THEN u16_from_le_bytes(At(buf, 2), At(buf, 3)) ELSE 0
    IN IF subheader = MC_SUBHEADER_REQUEST
       THEN MC_SUBHEADER_RESPONSE \o U16LE(serial) \o U16LE(0)
              \o AccessRoute_default \o U16LE(2) \o U16LE(err_code)
       ELSE << 208, 0 >> \o AccessRoute_default \o U16LE(2) \o U16LE(err_code)

----------------------------------------------------------------------------
(* The frames the peers send                                               *)

Route2 == << 0, 255, 255, 3, 1 >>
BodyD(ws) == BodyWriteWords("Q", 168, 0, ws)

Frames ==
    { \* write D0 = [0x1234], answered by a read of one word
      [name |-> "write", bytes |-> Mc3eRequest(AccessRoute_default, BodyD(<< 4660 >>))],
      \* write D0..D1 = [1, 0x1234]: the first word is below the count
      [name |-> "write_low", bytes |-> Mc4eRequest(258, Route2, BodyD(<< 1, 4660 >>))],
      [name |-> "read1", bytes |-> Mc3eRequest(Route2, BodyReadWords("Q", 168, 0, 1))],
      [name |-> "echo", bytes |-> Mc3eRequest(AccessRoute_default, BodyEcho(<< 65, 66 >>))],
      \* echo with a non-hex byte
      [name |-> "echo_bad", bytes |-> Mc4eRequest(1029, Route2, BodyEcho(<< 65, 71 >>))],
      \* a write of two words that carries one
      [name |-> "write_short",
       bytes |-> Mc3eRequest(AccessRoute_default,
                    BodyHeader("Q", CMD_WRITE, 0, 168, 0, 2) \o U16LE(4660))],
      \* frames without a body
      [name |-> "empty3", bytes |-> Mc3eRequest(Route2, << >>)],
      [name |-> "empty4", bytes |-> Mc4eRequest(1543, Route2, << >>)],
      \* headers with data length 1
      [name |-> "badlen4", bytes |-> Mc4eBadLen(4660, Route2)],
      [name |-> "badlen3", bytes |-> Mc3eBadLen(Route2)] }

FrameNamed(n) == (CHOOSE f \in Frames : f.name = n).bytes

----------------------------------------------------------------------------
(* TCP listener: run_listener_on and its connection tasks (server.rs)      *)

Init ==
    /\ store = DeviceMap_new
    /\ registry \in BOOLEAN
    /\ hphase = "idle"
    /\ hprev = NoCall
    /\ hlast = NoCall
    /\ ConnInit

Entry(frame, kind) ==
    [frame |-> frame, kind |-> kind, st |-> "drained", ok |-> TRUE, payload |-> << >>]

SetLast(h, st, ok, payload) ==
    [h EXCEPT ![Len(h)] = [@ EXCEPT !.st = st, !.ok = ok, !.payload = payload]]

\* listener.accept() returns a socket; the connection task starts reading
Accept(c) ==
    /\ listener = "accepting"
    /\ pc[c] = "free"
    /\ \A d \in Conns : d < c => pc[d] # "free"
    /\ pc' = [pc EXCEPT ![c] = "read"]
    /\ before' = [before EXCEPT ![c] = { d \in Conns : pc[d] = "closed" }]
    /\ UNCHANGED << store, registry, app, hvars, listener, wire, fin, tosend, nsent,
                    acc, cur, resp, outs, hist, sent, cause >>

\* listener.accept().await? returns an error: run_listener_on returns
AcceptError ==
    /\ listener = "accepting"
    /\ listener' = "stopped"
    /\ UNCHANGED << store, registry, app, hvars, pc, wire, fin, tosend, nsent,
                    acc, cur, resp, outs, hist, sent, cause, before >>

\* a frame that was sent in two pieces is still in two pieces: one piece in
\* the accumulator, the other unsent or unread
SplitInFlight(c) == tosend[c] # << >> \/ (acc[c] # << >> /\ wire[c] # << >>)

\* the peer starts a frame and sends its first k bytes; at most one frame at
\* a time is in two pieces
ClientSendFrame(c, f, k) ==
    /\ pc[c] \notin {"free", "closed"}
    /\ ~fin[c]
    /\ tosend[c] = << >>
    /\ nsent < MaxFrames
    /\ k < Len(f) => \A d \in Conns : ~SplitInFlight(d)
    /\ wire' = [wire EXCEPT ![c] = @ \o SubSeq(f, 1, k)]
    /\ tosend' = [tosend EXCEPT ![c] = SubSeq(f, k + 1, Len(f))]
    /\ sent' = [sent EXCEPT ![c] = Append(@, f)]
    /\ nsent' = nsent + 1
    /\ UNCHANGED << store, registry, app, hvars, listener, pc, fin, acc, cur, resp,
                    outs, hist, cause, before >>

\* the peer sends the rest of the frame it started
ClientSendRest(c) ==
    /\ pc[c] \notin {"free", "closed"}
    /\ ~fin[c]
    /\ tosend[c] # << >>
    /\ wire' = [wire EXCEPT ![c] = @ \o tosend[c]]
    /\ tosend' = [tosend EXCEPT ![c] = << >>]
    /\ UNCHANGED << store, registry, app, hvars, listener, pc, fin, nsent, acc, cur,
                    resp, outs, hist, sent, cause, before >>

\* the peer shuts its sending side down and closes
ClientClose(c) ==
    /\ pc[c] \notin {"free", "closed"}
    /\ ~fin[c]
    /\ fin' = [fin EXCEPT ![c] = TRUE]
    /\ UNCHANGED << store, registry, app, hvars, listener, pc, wire, tosend, nsent,
                    acc, cur, resp, outs, hist, sent, cause, before >>

\* close_with_rst(&mut socket); return
close_with_rst(c, why) ==
    /\ pc' = [pc EXCEPT ![c] = "closed"]
    /\ cause' = [cause EXCEPT ![c] = why]
    /\ before' = before

\* a connection that stays open after the idle deadline
Timeout_stays_open(c) ==
    /\ pc[c] = "read"
    /\ wire[c] = << >>
    /\ ~fin[c]
    /\ cause[c] = "none"
    /\ cause' = [cause EXCEPT ![c] = "timeout"]
    /\ before' = before
    /\ UNCHANGED << store, registry, app, hvars, listener, pc, wire, fin, tosend, nsent,
                    acc, cur, resp, outs, hist, sent >>

\* a frame loop that empties the accumulator when it takes a frame out
FrameLoop_clears_acc(c, a, h) ==
    LET d == detect_frame(a)
    IN IF d.kind = "err"
       THEN /\ acc' = [acc EXCEPT ![c] = a]
            /\ hist' = [hist EXCEPT ![c] = h]
            /\ pc' = [pc EXCEPT ![c] = "write_derr"]
            /\ cur' = cur
       ELSE IF d.kind = "none" \/ Len(a) < d.frame_len
       THEN /\ acc' = [acc EXCEPT ![c] = a]
            /\ hist' = [hist EXCEPT ![c] = h]
            /\ pc' = [pc EXCEPT ![c] = "read"]
            /\ cur' = cur
       ELSE LET frame == SubSeq(a, 1, d.frame_len)
            IN /\ acc' = [acc EXCEPT ![c] = << >>]
               /\ cur' = [cur EXCEPT ![c] = frame]
               /\ \E built \in try_from_payload(frame) :
                    IF built
                    THEN /\ pc' = [pc EXCEPT ![c] = "dispatch"]
                         /\ hist' = [hist EXCEPT ![c] = Append(h, Entry(frame, "req"))]
                    ELSE /\ pc' = [pc EXCEPT ![c] = "write_perr"]
                         /\ hist' = [hist EXCEPT ![c] = Append(h, Entry(frame, "perr"))]

\* the inner frame loop from detect_frame up to the next await
FrameLoop(c, a, h) ==
    LET d == detect_frame(a)
    IN IF d.kind = "err"
       THEN /\ acc' = [acc EXCEPT ![c] = a]
            /\ hist' = [hist EXCEPT ![c] = h]
            /\ pc' = [pc EXCEPT ![c] = "write_derr"]
            /\ cur' = cur
       ELSE IF d.kind = "none" \/ Len(a) < d.frame_len
       THEN /\ acc' = [acc EXCEPT ![c] = a]
            /\ hist' = [hist EXCEPT ![c] = h]
            /\ pc' = [pc EXCEPT ![c] = "read"]
            /\ cur' = cur
       ELSE LET frame == SubSeq(a, 1, d.frame_len)
            IN /\ acc' = [acc EXCEPT ![c] = SubSeq(a, d.frame_len + 1, Len(a))]
               /\ cur' = [cur EXCEPT ![c] = frame]
               /\ \E built \in try_from_payload(frame) :
                    IF built
                    THEN /\ pc' = [pc EXCEPT ![c] = "dispatch"]
                         /\ hist' = [hist EXCEPT ![c] = Append(h, Entry(frame, "req"))]
                    ELSE /\ pc' = [pc EXCEPT ![c] = "write_perr"]
                         /\ hist' = [hist EXCEPT ![c] = Append(h, Entry(frame, "perr"))]

\* read returns n > 0 bytes: append to acc and run the frame loop
ServerRead(c) ==
    /\ pc[c] = "read"
    /\ wire[c] # << >>
    /\ wire' = [wire EXCEPT ![c] = << >>]
    /\ FrameLoop(c, acc[c] \o wire[c], hist[c])
    /\ UNCHANGED << store, registry, app, hvars, listener, fin, tosend, nsent, resp,
                    outs, sent, cause, before >>

\* read returns 0: the peer closed
PeerClosed(c) ==
    /\ pc[c] = "read"
    /\ wire[c] = << >>
    /\ fin[c]
    /\ close_with_rst(c, "peer_close")
    /\ UNCHANGED << store, registry, app, hvars, listener, wire, fin, tosend, nsent,
                    acc, cur, resp, outs, hist, sent >>

\* read returns an error
ReadError(c) ==
    /\ pc[c] = "read"
    /\ close_with_rst(c, "read_error")
    /\ UNCHANGED << store, registry, app, hvars, listener, wire, fin, tosend, nsent,
                    acc, cur, resp, outs, hist, sent >>

\* the read did not return within TIM_AWAIT_MS
Timeout(c) ==
    /\ pc[c] = "read"
    /\ wire[c] = << >>
    /\ ~fin[c]
    /\ close_with_rst(c, "timeout")
    /\ UNCHANGED << store, registry, app, hvars, listener, wire, fin, tosend, nsent,
                    acc, cur, resp, outs, hist, sent >>

\* handle_request_and_apply_store(&store, &mc_req).await; an error gives the
\* empty resp_data
Dispatch(c) ==
    /\ pc[c] = "dispatch"
    /\ LET r == handle_request_and_apply_store(store, registry,
                                               McRequest(cur[c]).request_data)
           d == IF r.ok THEN r.payload ELSE << >>
       IN /\ store' = r.store
          /\ resp' = [resp EXCEPT ![c] = d]
          /\ hist' = [hist EXCEPT ![c] = SetLast(@, "dispatched", r.ok, d)]
    /\ pc' = [pc EXCEPT ![c] = "write"]
    /\ UNCHANGED << registry, app, hvars, listener, wire, fin, tosend, nsent, acc,
                    cur, outs, sent, cause, before >>

\* writable().await and try_write(&out) of the response
WriteResp(c, wrote) ==
    /\ pc[c] = "write"
    /\ LET out == build_mc_response_from_request(McRequest(cur[c]), resp[c],
                                                 detect_format_from_frame(cur[c]))
           e == hist[c][Len(hist[c])]
       IN IF wrote
          THEN /\ outs' = [outs EXCEPT ![c] = Append(@, out)]
               /\ FrameLoop(c, acc[c], SetLast(hist[c], "written", e.ok, e.payload))
               /\ cause' = cause
               /\ before' = before
          ELSE /\ outs' = outs
               /\ hist' = [hist EXCEPT ![c] = SetLast(@, "failed", e.ok, e.payload)]
               /\ close_with_rst(c, "write_error")
               /\ UNCHANGED << acc, cur >>
    /\ UNCHANGED << store, registry, app, hvars, listener, wire, fin, tosend, nsent,
                    resp, sent >>

\* no request object: the error frame is written, its result is not looked
\* at, and the frame loop continues
WriteParseErr(c, wrote) ==
    /\ pc[c] = "write_perr"
    /\ LET e == hist[c][Len(hist[c])]
       IN /\ outs' = [outs EXCEPT ![c] = IF wrote THEN Append(@, parse_error_frame(cur[c])) ELSE @]
          /\ FrameLoop(c, acc[c],
                       SetLast(hist[c], IF wrote THEN "written" ELSE "failed", e.ok, e.payload))
    /\ UNCHANGED << store, registry, app, hvars, listener, wire, fin, tosend, nsent,
                    resp, sent, cause, before >>

\* detect_frame failed: the error frame is written, then RST
WriteDetectErr(c, wrote) ==
    /\ pc[c] = "write_derr"
    /\ outs' = [outs EXCEPT ![c] = IF wrote THEN Append(@, detect_error_frame(acc[c])) ELSE @]
    /\ close_with_rst(c, "malformed")
    /\ UNCHANGED << store, registry, app, hvars, listener, wire, fin, tosend, nsent,
                    acc, cur, resp, hist, sent >>

Next ==
    \/ AcceptError
    \/ \E c \in Conns :
         \/ Accept(c)
         \/ \E f \in Frames : ClientSendFrame(c, f.bytes, Len(f.bytes))
         \/ ClientClose(c)
         \/ ServerRead(c)
         \/ PeerClosed(c)
         \/ ReadError(c)
         \/ Timeout(c)
         \/ Dispatch(c)
         \/ \E wrote \in BOOLEAN : WriteResp(c, wrote)
         \/ \E wrote \in BOOLEAN : WriteParseErr(c, wrote)
         \/ \E wrote \in BOOLEAN : WriteDetectErr(c, wrote)

Spec == Init /\ [][Next]_vars

\* one connection whose peer sends frames in pieces
FirstConn == {1}

NextPartial ==
    \/ AcceptError
    \/ \E c \in FirstConn :
         \/ Accept(c)
         \/ \E f \in Frames : \E k \in 1 .. Len(f.bytes) : ClientSendFrame(c, f.bytes, k)
         \/ ClientSendRest(c)
         \/ ClientClose(c)
         \/ ServerRead(c)
         \/ PeerClosed(c)
         \/ ReadError(c)
         \/ Timeout(c)
         \/ Dispatch(c)
         \/ \E wrote \in BOOLEAN : WriteResp(c, wrote)
         \/ \E wrote \in BOOLEAN : WriteParseErr(c, wrote)
         \/ \E wrote \in BOOLEAN : WriteDetectErr(c, wrote)

SpecPartial == Init /\ [][NextPartial]_vars

----------------------------------------------------------------------------
(* One frame served by a connection task, observed by the header and the   *)
(* length of the response, for read counts up to the largest the 16-bit    *)
(* count field holds                                                       *)

ReadCounts == (0 .. 3) \cup {960} \cup (32764 .. 32769) \cup (65533 .. 65535)

LenFrames ==
    { Mc3eRequest(AccessRoute_default, BodyReadWords("Q", 168, 0, n)) : n \in ReadCounts }
      \cup { Mc4eRequest(258, Route2, BodyReadWords("Q", 168, 0, n)) : n \in ReadCounts }
      \cup { Mc3eRequest(Route2, BodyEcho(<< 65, 66 >>)) }

InitLen ==
    /\ store \in InitStores
    /\ registry \in BOOLEAN
    /\ hphase = "idle"
    /\ hprev = NoCall
    /\ hlast = NoCall
    /\ ConnInit

\* the frame loop for one complete frame: request, handler, format, response
ServeFrame(f) ==
    /\ hphase = "idle"
    /\ LET mc_req == McRequest(f)
           r == handle_request_and_apply_store(store, registry, mc_req.request_data)
           resp_data == IF r.ok THEN r.payload ELSE << >>
           fmt == detect_format_from_frame(f)
           out == build_mc_response_from_request(mc_req, resp_data, fmt)
           hdr == IF fmt = "MC4E" THEN 15 ELSE 11
       IN /\ store' = r.store
          /\ hlast' = [frame |-> f, format |-> fmt, header |-> SubSeq(out, 1, hdr),
                       paylen |-> Len(out) - hdr]
    /\ hphase' = "one"
    /\ UNCHANGED << registry, app, hprev, cvars >>

NextLen == \E f \in LenFrames : ServeFrame(f)

SpecLen == InitLen /\ [][NextLen]_vars

----------------------------------------------------------------------------
(* Calls of the store: DeviceMap::set_words / get_words / has_key, the     *)
(* MockServer helpers in front of them, and read requests of the handler.  *)
(* The scenario is at most one write, then one read; the handler reads a   *)
(* store that earlier writes left behind.                                  *)

\* MockServer::set_words: normalize, then the store normalizes again
server_set_words(s, key, addr, words) ==
    LET n == normalize_key_addr(key, addr)
    IN set_words(s, n.key, n.addr, words)

\* MockServer::get_words
server_get_words(s, key, addr, count) ==
    LET n == normalize_key_addr(key, addr)
    IN get_words(s, n.key, n.addr, count)

\* keys of every form: symbols, combined keys, hex and decimal literals in
\* and out of the u8 range, and a string of no form
StoreKeys ==
    {SymKey("D"), SymKey("ZR"), CombKey("D", 0), CombKey("D", 2),
     HexKey(168), HexKey(511), DecKey(168), DecKey(300), OtherKey}

StoreAddrs == 0 .. MaxWords
StoreWordLists == {<< >>} \cup UNION {[1 .. n -> {0, 4660}] : n \in 1 .. MaxWords}
StoreCounts == 0 .. (MaxWords + 1)

BodyReadBits(layout, dev, addr, count) ==
    BodyHeader(layout, CMD_READ, 1, dev, addr, count)

StoreReadRequests ==
    ReadRequests
      \cup {[kind |-> "readbits", layout |-> l, dev |-> d, addr |-> a, words |-> << n >>,
             body |-> BodyReadBits(l, d, a, n)] :
               l \in Layouts, d \in DevCodes, a \in Addrs, n \in 1 .. MaxWords}

NoOp == [op |-> "none", via |-> "store", key |-> OtherKey, addr |-> Usize(0),
         words |-> << >>, count |-> 0, pre |-> DeviceMap_new, out |-> << >>]

InitStore ==
    /\ store \in InitStores
    /\ registry \in BOOLEAN
    /\ hphase = "idle"
    /\ hprev = NoOp
    /\ hlast = NoOp
    /\ ConnInit

\* dm.set_words(key, addr, words) or server.set_words(key, addr, words).await
StoreSet(via, key, addr, words) ==
    /\ hphase = "idle"
    /\ store' = IF via = "server" THEN server_set_words(store, key, Usize(addr), words)
                ELSE set_words(store, key, Usize(addr), words)
    /\ hlast' = [op |-> "set", via |-> via, key |-> key, addr |-> Usize(addr),
                 words |-> words, count |-> Len(words), pre |-> store, out |-> << >>]
    /\ hprev' = hlast
    /\ hphase' = "one"
    /\ UNCHANGED << registry, app, cvars >>

\* a read that allocates the vector it reads, as entry().or_default() would
StoreGet_allocates(via, key, addr, count) ==
    /\ hphase \in {"idle", "one"}
    /\ store' = set_words(store, key, Usize(addr), << >>)
    /\ hlast' = [op |-> "get", via |-> via, key |-> key, addr |-> Usize(addr),
                 words |-> << >>, count |-> count, pre |-> store,
                 out |-> get_words(store, key, Usize(addr), count)]
    /\ hprev' = hlast
    /\ hphase' = "two"
    /\ UNCHANGED << registry, app, cvars >>

\* dm.get_words(key, addr, count) or server.get_words(key, addr, count).await
StoreGet(via, key, addr, count) ==
    /\ hphase \in {"idle", "one"}
    /\ hlast' = [op |-> "get", via |-> via, key |-> key, addr |-> Usize(addr),
                 words |-> << >>, count |-> count, pre |-> store,
                 out |-> IF via = "server"
                         THEN server_get_words(store, key, Usize(addr), count)
                         ELSE get_words(store, key, Usize(addr), count)]
    /\ hprev' = hlast
    /\ hphase' = "two"
    /\ UNCHANGED << store, registry, app, cvars >>

\* a read-words or read-bits request through handle_request_and_apply_store
StoreHandlerRead(req) ==
    /\ hphase = "idle"
    /\ LET r == handle_request_and_apply_store(store, registry, req.body)
       IN /\ store' = r.store
          /\ hlast' = [op |-> req.kind, via |-> "handler", key |-> HexKey(req.dev),
                       addr |-> Usize(req.addr), words |-> << >>,
                       count |-> req.words[1], pre |-> store, out |-> r.payload]
    /\ hprev' = hlast
    /\ hphase' = "two"
    /\ UNCHANGED << registry, app, cvars >>

NextStore ==
    \/ \E via \in {"store", "server"}, key \in StoreKeys, addr \in StoreAddrs :
         \/ \E words \in StoreWordLists : StoreSet(via, key, addr, words)
         \/ \E count \in StoreCounts : StoreGet(via, key, addr, count)
    \/ \E req \in StoreReadRequests : StoreHandlerRead(req)

SpecStore == InitStore /\ [][NextStore]_vars

----------------------------------------------------------------------------
(* start_mock of the GUI backend (src-tauri/src/lib.rs).  Tauri runs each  *)
(* invocation of an async command as a task of the multi-threaded runtime, *)
(* so invocations overlap; mock_handles is locked for the check and again  *)
(* for the push, and not in between.  stop_mock is not called.             *)

InitMock ==
    /\ store = DeviceMap_new
    /\ registry = TRUE
    /\ hphase = "idle"
    /\ hprev = NoCall
    /\ hlast = NoCall
    /\ ConnInit

Running(c) == app.call[c].pc \notin {"idle", "done"}

\* the first block: lock, retain the unfinished handles, return if any is
\* left
StartCheck(c, udp_port) ==
    /\ app.call[c].pc = "idle"
    /\ \A d \in Calls : d < c => app.call[d].pc # "idle"
    /\ LET kept == {h \in app.mock_handles : app.task[h] # "finished"}
       IN app' = [app EXCEPT !.mock_handles = kept,
                             !.call[c] = [pc |-> IF kept # {} THEN "done" ELSE "checked",
                                          udp |-> udp_port]]
    /\ UNCHANGED << store, registry, hvars, cvars >>

\* let tcp_handle = tokio::spawn(..)
SpawnTcp(c) ==
    /\ app.call[c].pc = "checked"
    /\ app' = [app EXCEPT !.task[TcpHandle(c)] = "live",
                          !.call[c].pc = "tcp_spawned"]
    /\ UNCHANGED << store, registry, hvars, cvars >>

\* let udp_handle_opt = if let Some(port) = udp_port { Some(tokio::spawn(..)) }
SpawnUdp(c) ==
    /\ app.call[c].pc = "tcp_spawned"
    /\ app' = [app EXCEPT !.task[UdpHandle(c)] = IF app.call[c].udp THEN "live" ELSE @,
                          !.call[c].pc = "spawned"]
    /\ UNCHANGED << store, registry, hvars, cvars >>

\* the last block: lock, push tcp_handle and the udp handle if there is one
PushHandles(c) ==
    /\ app.call[c].pc = "spawned"
    /\ app' = [app EXCEPT !.mock_handles =
                              @ \cup {TcpHandle(c)}
                                \cup (IF app.call[c].udp THEN {UdpHandle(c)} ELSE {}),
                          !.call[c].pc = "done"]
    /\ UNCHANGED << store, registry, hvars, cvars >>

\* a listener task ends: the bind failed or the listener returned
TaskEnds(h) ==
    /\ app.task[h] = "live"
    /\ app' = [app EXCEPT !.task[h] = "finished"]
    /\ UNCHANGED << store, registry, hvars, cvars >>

NextMock ==
    \/ \E c \in Calls :
         \/ \E udp_port \in BOOLEAN : StartCheck(c, udp_port)
         \/ SpawnTcp(c)
         \/ SpawnUdp(c)
         \/ PushHandles(c)
    \/ \E h \in Handles : TaskEnds(h)

SpecMock == InitMock /\ [][NextMock]_vars

----------------------------------------------------------------------------
(* start_mock and stop_mock of the GUI backend that saves and clears       *)
(* (src/lib.rs), with the tasks of run_listener_on (server.rs): the task   *)
(* start_mock spawns binds, spawns the accept task and pushes its handle;  *)
(* the accept task spawns one detached task per connection, which applies  *)
(* the write frames of its peer to the store.  stop_mock is called once.   *)

\* the write frames a peer sends: D0 = [w]
StopWrites == {BodyD(<< w >>) : w \in {1, 4660}}

\* AppState::new: no handle, nothing spawned, no snapshot file
AppState_new_lib ==
    [listener_handles |-> {},
     starter |-> [c \in Calls |-> "unspawned"],
     accept |-> [c \in Calls |-> "unspawned"],
     conn |-> [k \in Conns |-> "unspawned"],
     stop |-> "idle",
     bytes |-> DeviceMap_new,
     saved |-> FALSE,
     file |-> DeviceMap_new]

InitStop ==
    /\ store \in InitStores
    /\ registry = TRUE
    /\ hphase = "idle"
    /\ hprev = NoCall
    /\ hlast = NoCall
    /\ ConnIdle
    /\ app = AppState_new_lib

\* stop_mock holds the listener_handles lock from its first line to its end
HandlesLocked == app.stop \notin {"idle", "returned"}

\* save_snapshot holds the store's read lock until the file is written
StoreReadLocked == app.stop = "snapshotted"

\* start_mock: app.rt.spawn(async move { .. }); return Ok(())
start_mock(c) ==
    /\ app.starter[c] = "unspawned"
    /\ \A d \in Calls : d < c => app.starter[d] # "unspawned"
    /\ app' = [app EXCEPT !.starter[c] = "binding"]
    /\ UNCHANGED << store, registry, hvars, cvars >>

\* the spawned task: TcpListener::bind; on Ok the accept task is spawned
StarterBind(c, bound) ==
    /\ app.starter[c] = "binding"
    /\ app' = IF bound
              THEN [app EXCEPT !.starter[c] = "pushing", !.accept[c] = "live"]
              ELSE [app EXCEPT !.starter[c] = "finished"]
    /\ UNCHANGED << store, registry, hvars, cvars >>

\* handles.lock().await.push(h)
StarterPush(c) ==
    /\ app.starter[c] = "pushing"
    /\ ~HandlesLocked
    /\ app' = [app EXCEPT !.starter[c] = "finished",
                          !.listener_handles = @ \cup {c}]
    /\ UNCHANGED << store, registry, hvars, cvars >>

\* run_listener_on: listener.accept() returns, tokio::spawn of the
\* connection task; its JoinHandle is dropped
AcceptConn(c, k) ==
    /\ app.accept[c] = "live"
    /\ app.conn[k] = "unspawned"
    /\ \A j \in Conns : j < k => app.conn[j] # "unspawned"
    /\ app' = [app EXCEPT !.conn[k] = "live"]
    /\ UNCHANGED << store, registry, hvars, cvars >>

\* a connection task dispatches a write frame of its peer
ConnWrite(k, body) ==
    /\ app.conn[k] = "live"
    /\ ~StoreReadLocked
    /\ store' = handle_request_and_apply_store(store, registry, body).store
    /\ UNCHANGED << registry, app, hvars, cvars >>

\* a connection task returns (peer closed, timeout, error)
ConnEnds(k) ==
    /\ app.conn[k] = "live"
    /\ app' = [app EXCEPT !.conn[k] = "finished"]
    /\ UNCHANGED << store, registry, hvars, cvars >>

\* stop_mock: lock listener_handles; for h in hs.drain(..) { h.abort() }
StopAbort ==
    /\ app.stop = "idle"
    /\ \E c \in Calls : app.starter[c] # "unspawned"
    /\ app' = [app EXCEPT !.stop = "aborted",
                          !.listener_handles = {},
                          !.accept = [c \in Calls |->
                                        IF c \in app.listener_handles /\ @[c] = "live"
                                        THEN "aborted" ELSE @[c]]]
    /\ UNCHANGED << store, registry, hvars, cvars >>

\* save_snapshot: store.read().await; serde_json::to_vec(&*s)
StopSnapshot ==
    /\ app.stop = "aborted"
    /\ app' = [app EXCEPT !.stop = "snapshotted", !.bytes = store]
    /\ UNCHANGED << store, registry, hvars, cvars >>

\* save_snapshot: std::fs::write(&path, &bytes); the result is dropped by
\* stop_mock
StopSave(written) ==
    /\ app.stop = "snapshotted"
    /\ app' = [app EXCEPT !.stop = "saved",
                          !.saved = written,
                          !.file = IF written THEN app.bytes ELSE @]
    /\ UNCHANGED << store, registry, hvars, cvars >>

\* store.write().await; dm.clear()
StopClear ==
    /\ app.stop = "saved"
    /\ store' = DeviceMap_new
    /\ app' = [app EXCEPT !.stop = "cleared"]
    /\ UNCHANGED << registry, hvars, cvars >>

\* window.emit(..); Ok(())
StopReturn ==
    /\ app.stop = "cleared"
    /\ app' = [app EXCEPT !.stop = "returned"]
    /\ UNCHANGED << store, registry, hvars, cvars >>

NextStop ==
    \/ \E c \in Calls :
         \/ start_mock(c)
         \/ \E bound \in BOOLEAN : StarterBind(c, bound)
         \/ StarterPush(c)
         \/ \E k \in Conns : AcceptConn(c, k)
    \/ \E k \in Conns :
         \/ \E body \in StopWrites : ConnWrite(k, body)
         \/ ConnEnds(k)
    \/ StopAbort
    \/ StopSnapshot
    \/ \E written \in BOOLEAN : StopSave(written)
    \/ StopClear
    \/ StopReturn

SpecStop == InitStop /\ [][NextStop]_vars

----------------------------------------------------------------------------
(* UDP listener: run_udp_listener (server.rs).  One task; wire[c] holds    *)
(* the datagrams peer c has sent and the socket has not yet returned,      *)
(* outs[c] the datagrams sent to peer c, hist[c] one entry per datagram    *)
(* received from peer c.                                                   *)

\* the datagrams the peers send; the empty datagram holds no header
UdpFrames ==
    {FrameNamed(n) : n \in {"write", "write_low", "read1", "echo", "echo_bad", "empty3"}}
      \cup {<< >>}

InitUdp ==
    /\ store = DeviceMap_new
    /\ registry \in BOOLEAN
    /\ hphase = "idle"
    /\ hprev = NoCall
    /\ hlast = NoCall
    /\ ConnInit

\* a peer sends a datagram
UdpClientSend(c, f) ==
    /\ nsent < MaxFrames
    /\ wire' = [wire EXCEPT ![c] = Append(@, f)]
    /\ sent' = [sent EXCEPT ![c] = Append(@, f)]
    /\ nsent' = nsent + 1
    /\ UNCHANGED << store, registry, app, hvars, listener, pc, fin, tosend, acc,
                    cur, resp, outs, hist, cause, before >>

\* socket.recv_from returns the next datagram of peer c; try_from_payload
\* gives the request, or the loop continues without a reply
UdpRecv(c) ==
    /\ listener = "accepting"
    /\ wire[c] # << >>
    /\ LET frame == Head(wire[c])
       IN /\ wire' = [wire EXCEPT ![c] = Tail(@)]
          /\ cur' = [cur EXCEPT ![c] = frame]
          /\ \E built \in (IF Len(frame) < 9 THEN {FALSE} ELSE try_from_payload(frame)) :
               IF built
               THEN /\ hist' = [hist EXCEPT ![c] = Append(@, Entry(frame, "req"))]
                    /\ pc' = [pc EXCEPT ![c] = "dispatch"]
                    /\ listener' = "busy"
               ELSE /\ hist' = [hist EXCEPT ![c] = Append(@, Entry(frame, "perr"))]
                    /\ UNCHANGED << pc, listener >>
    /\ UNCHANGED << store, registry, app, hvars, fin, tosend, nsent, acc, resp,
                    outs, sent, cause, before >>

\* handle_request_and_apply_store; an error gives the empty resp_data
UdpDispatch(c) ==
    /\ pc[c] = "dispatch"
    /\ LET r == handle_request_and_apply_store(store, registry,
                                               McRequest(cur[c]).request_data)
           d == IF r.ok THEN r.payload ELSE << >>
       IN /\ store' = r.store
          /\ resp' = [resp EXCEPT ![c] = d]
          /\ hist' = [hist EXCEPT ![c] = SetLast(@, "dispatched", r.ok, d)]
    /\ pc' = [pc EXCEPT ![c] = "write"]
    /\ UNCHANGED << registry, app, hvars, listener, wire, fin, tosend, nsent, acc,
                    cur, outs, sent, cause, before >>

\* socket.send_to(&out, &peer); an error is logged and the loop continues
UdpSend(c, ok) ==
    /\ pc[c] = "write"
    /\ LET out == build_mc_response_from_request(McRequest(cur[c]), resp[c],
                                                 detect_format_from_frame(cur[c]))
           e == hist[c][Len(hist[c])]
       IN /\ outs' = [outs EXCEPT ![c] = IF ok THEN Append(@, out) ELSE @]
          /\ hist' = [hist EXCEPT ![c] =
                        SetLast(@, IF ok THEN "written" ELSE "failed", e.ok, e.payload)]
    /\ pc' = [pc EXCEPT ![c] = "free"]
    /\ listener' = "accepting"
    /\ UNCHANGED << store, registry, app, hvars, wire, fin, tosend, nsent, acc,
                    cur, resp, sent, cause, before >>

NextUdp ==
    \E c \in Conns :
      \/ \E f \in UdpFrames : UdpClientSend(c, f)
      \/ UdpRecv(c)
      \/ UdpDispatch(c)
      \/ \E ok \in BOOLEAN : UdpSend(c, ok)

SpecUdp == InitUdp /\ [][NextUdp]_vars

----------------------------------------------------------------------------
(* Direct handler calls with write-words requests that declare more words  *)
(* than they carry                                                         *)

\* the word lists shorter than n words
ShorterLists(n) == {<< >>} \cup UNION {[1 .. k -> WordVals] : k \in 1 .. (n - 1)}

TooShortWrites ==
    {[kind |-> "shortwrite", layout |-> l, dev |-> d, addr |-> a, words |-> ws,
      count |-> n,
      body |-> BodyHeader(l, CMD_WRITE, 0, d, a, n) \o WordsLE(ws)] :
        l \in Layouts, d \in DevCodes, a \in Addrs,
        n \in 1 .. (MaxWords + 1), ws \in ShorterLists(MaxWords + 1)}

NextShort ==
    \E req \in TooShortWrites :
      /\ Len(req.words) < req.count
      /\ hphase = "idle"
      /\ HandlerCall(req)

SpecShort == InitH /\ [][NextShort]_vars

----------------------------------------------------------------------------
(* Direct handler calls with bit requests: one write-bits or read-bits     *)
(* request, then one read-bits request                                     *)

\* the nibbles a client packs: 0, 1 and a non-zero nibble other than 1
NibbleVals == {0, 1, 15}
BitCounts == 1 .. (2 * MaxWords)
NibbleLists == UNION {[1 .. n -> NibbleVals] : n \in BitCounts}

\* nibble i (from 0) is the high nibble of byte i/2 for even i, the low
\* nibble for odd i
PackNibbles(bits) ==
    [j \in 1 .. ((Len(bits) + 1) \div 2) |->
        16 * bits[2 * j - 1] + (IF 2 * j <= Len(bits) THEN bits[2 * j] ELSE 0)]

\* subcommand 0x0001 for the Q-series layout, 0x0003 for the R-series one
BitSub(layout) == IF layout = "Q" THEN 1 ELSE 3

BodyWriteBits(layout, dev, addr, bits) ==
    BodyHeader(layout, CMD_WRITE, BitSub(layout), dev, addr, Len(bits)) \o PackNibbles(bits)

BitWriteRequests ==
    {[kind |-> "writebits", layout |-> l, dev |-> d, addr |-> a, words |-> bits,
      body |-> BodyWriteBits(l, d, a, bits)] :
        l \in Layouts, d \in DevCodes, a \in Addrs, bits \in NibbleLists}

\* a read-bits request's `words` holds its count
BitReadRequests ==
    {[kind |-> "readbits", layout |-> l, dev |-> d, addr |-> a, words |-> << n >>,
      body |-> BodyHeader(l, CMD_READ, BitSub(l), d, a, n)] :
        l \in Layouts, d \in DevCodes, a \in Addrs, n \in BitCounts}

NextBits == \E req \in BitWriteRequests \cup BitReadRequests : HandlerCall(req)

SpecBits == InitH /\ [][NextBits]_vars

----------------------------------------------------------------------------
(* Seeding the store from an assignment file (DeviceMap::populate_from_toml) *)

MaxLines == 3

\* a line of the file: a section header, or `key = value`.  A value is its
\* leading number (-1 when the text before the suffix is no number) and its
\* last character when that is no digit
SectionLine(name) == [kind |-> "section", name |-> name]
EntryLine(key, val) == [kind |-> "entry", key |-> key, val |-> val]
Val(num, suffix) == [num |-> num, suffix |-> suffix]

\* count_opt: `8K` / `8k` is 8 * 1024, a plain integer is itself
parse_count(val) ==
    IF val.num < 0 THEN [some |-> FALSE, n |-> 0]
    ELSE IF val.suffix \in {"K", "k"} THEN [some |-> TRUE, n |-> val.num * 1024]
    ELSE IF val.suffix = "" THEN [some |-> TRUE, n |-> val.num]
    ELSE [some |-> FALSE, n |-> 0]

\* key.to_uppercase(), for the key texts of the model
key_upper(key) ==
    IF key.form # "symbol" THEN "" ELSE IF key.sym = "zr" THEN "ZR" ELSE key.sym

\* the sub-devices a timer or counter symbol expands to
targets(key) ==
    LET u == key_upper(key)
    IN CASE u = "T" -> << SymKey("TS"), SymKey("TN"), SymKey("TC") >>
         [] u = "LT" -> << SymKey("LTS"), SymKey("LTN"), SymKey("LTC") >>
         [] u = "ST" -> << SymKey("STS"), SymKey("STN"), SymKey("STC") >>
         [] u = "LST" -> << SymKey("LSTS"), SymKey("LSTN"), SymKey("LSTC") >>
         [] u = "C" -> << SymKey("CTS"), SymKey("CTN"), SymKey("CTC") >>
         [] u = "LC" -> << SymKey("LCTS"), SymKey("LCTN"), SymKey("LCTC") >>
         [] OTHER -> << key >>

RECURSIVE set_zeros(_, _, _, _)
set_zeros(s, ts, count, i) ==
    IF i > Len(ts) THEN s
    ELSE set_zeros(set_words(s, ts[i], Usize(0), Fill(0, count)), ts, count, i + 1)

\* one turn of the loop over the lines: st is the store and in_devices
seed_line(st, line) ==
    IF line.kind = "section"
    THEN [store |-> st.store, in_devices |-> (line.name = "devices")]
    ELSE IF ~st.in_devices THEN st
    ELSE LET c == parse_count(line.val)
         IN IF ~c.some \/ c.n = 0 \/ key_upper(line.key) = "ZR" THEN st
            ELSE [store |-> set_zeros(st.store, targets(line.key), c.n, 1),
                  in_devices |-> TRUE]

RECURSIVE populate_lines(_, _, _)
populate_lines(st, file, i) ==
    IF i > Len(file) THEN st ELSE populate_lines(seed_line(st, file[i]), file, i + 1)

populate_from_toml(s, file) ==
    populate_lines([store |-> s, in_devices |-> FALSE], file, 1).store

SeedKeys ==
    {SymKey("D"), SymKey("ZR"), SymKey("zr"), HexKey(176),
     SymKey("T"), SymKey("LT"), SymKey("ST"), SymKey("LST"), SymKey("C"), SymKey("LC")}
SeedVals == {Val(2, ""), Val(1, "K"), Val(1, "k"), Val(0, ""), Val(-1, ""), Val(2, "M")}
SeedLines ==
    {SectionLine(n) : n \in {"devices", "other"}}
      \cup {EntryLine(k, v) : k \in SeedKeys, v \in SeedVals}

NoLine == SectionLine("none")

InitSeed ==
    /\ store = DeviceMap_new
    /\ registry = TRUE
    /\ hphase = "idle"
    /\ hprev = NoCall
    /\ hlast = NoCall
    /\ ConnIdle
    /\ app = [in_devices |-> FALSE, nlines |-> 0, line |-> NoLine, was_in |-> FALSE,
              pre |-> DeviceMap_new, phase |-> "seeding"]

\* populate_from_toml reads one more line of the file
SeedLine(line) ==
    /\ app.phase = "seeding"
    /\ app.nlines < MaxLines
    /\ LET st == seed_line([store |-> store, in_devices |-> app.in_devices], line)
       IN /\ store' = st.store
          /\ app' = [in_devices |-> st.in_devices, nlines |-> app.nlines + 1,
                     line |-> line, was_in |-> app.in_devices, pre |-> store,
                     phase |-> "seeding"]
    /\ UNCHANGED << registry, hvars, cvars >>

\* the first write to ZR after the seeding
SeedWriteZR ==
    /\ app.phase = "seeding"
    /\ app.nlines > 0
    /\ store' = set_words(store, SymKey("ZR"), Usize(0), << 4660 >>)
    /\ app' = [app EXCEPT !.phase = "written", !.pre = store]
    /\ UNCHANGED << registry, hvars, cvars >>

NextSeed ==
    \/ \E line \in SeedLines : SeedLine(line)
    \/ SeedWriteZR

SpecSeed == InitSeed /\ [][NextSeed]_vars

----------------------------------------------------------------------------
(* Persistence: the snapshot file written by stop_mock and read by         *)
(* MockServer::new_with_assignment                                         *)

MaxBoots == 1

\* serialize_u8 as a JSON object key: the decimal digits of the code
KeyText(code) ==
    IF code >= 100 THEN << code \div 100, (code \div 10) % 10, code % 10 >>
    ELSE IF code >= 10 THEN << code \div 10, code % 10 >>
    ELSE << code >>

\* u8::deserialize of a JSON object key: -1 when the text is no u8
KeyCode(text) ==
    LET n == IF Len(text) = 3 THEN 100 * text[1] + 10 * text[2] + text[3]
             ELSE IF Len(text) = 2 THEN 10 * text[1] + text[2]
             ELSE text[1]
    IN IF n <= 255 THEN n ELSE -1

\* a Vec<Word> as a JSON array: every word below the length, zeros included
WordArray(vec) == [i \in 1 .. vec.len[2] |-> VecGet(vec, Usize(i - 1))]

vec_from_array(arr) ==
    [len |-> Usize(Len(arr)),
     nz |-> [a \in {Usize(i - 1) : i \in {j \in 1 .. Len(arr) : arr[j] # 0}} |->
               arr[CHOOSE i \in 1 .. Len(arr) : Usize(i - 1) = a]]]

\* serde_json::to_writer(&self): the object under "inner"
to_json(s) ==
    [t \in {KeyText(c) : c \in DOMAIN s} |->
        WordArray(s[CHOOSE c \in DOMAIN s : KeyText(c) = t])]

\* serde_json::from_reader
from_json(j) ==
    [c \in {KeyCode(t) : t \in DOMAIN j} |->
        vec_from_array(j[CHOOSE t \in DOMAIN j : KeyCode(t) = c])]

\* the snapshot file: absent, unreadable as JSON, or a serialized store
NoFile == [state |-> "none", json |-> to_json(DeviceMap_new)]
CorruptFile == [state |-> "corrupt", json |-> to_json(DeviceMap_new)]
save_to_file(s) == [state |-> "json", json |-> to_json(s)]

\* Ok(None) when the file is absent, Err when it cannot be parsed
load_from_file(file) ==
    IF file.state = "json" THEN [some |-> TRUE, dm |-> from_json(file.json)]
    ELSE [some |-> FALSE, dm |-> DeviceMap_new]

\* an assignment file: absent, present but unreadable, or its lines
TomlMissing == [state |-> "missing", lines |-> << >>]
TomlUnreadable == [state |-> "unreadable", lines |-> << >>]
TomlOf(lines) == [state |-> "lines", lines |-> lines]

\* dm.populate_from_toml(p): Err, leaving dm as it was, when the file cannot
\* be read
try_populate(dm, toml) ==
    IF toml.state = "lines"
    THEN [ok |-> TRUE, dm |-> populate_from_toml(dm, toml.lines)]
    ELSE [ok |-> FALSE, dm |-> dm]

\* the loop over default_candidates
RECURSIVE populate_candidates(_, _, _)
populate_candidates(dm, cands, i) ==
    IF i > Len(cands) THEN dm
    ELSE IF cands[i].state = "missing" THEN populate_candidates(dm, cands, i + 1)
    ELSE LET r == try_populate(dm, cands[i])
         IN IF r.ok THEN r.dm ELSE populate_candidates(r.dm, cands, i + 1)

NoPath == [some |-> FALSE, toml |-> TomlMissing]
SomePath(toml) == [some |-> TRUE, toml |-> toml]

\* a construction that seeds whatever the snapshot holds
new_with_assignment_always_seeds(file, path, cands) ==
    LET dm == load_from_file(file).dm
    IN IF path.some THEN try_populate(dm, path.toml).dm
       ELSE populate_candidates(dm, cands, 1)

new_with_assignment(file, path, cands) ==
    LET dm == load_from_file(file).dm
    IN IF dm # DeviceMap_new THEN dm
       ELSE IF path.some THEN try_populate(dm, path.toml).dm
            ELSE populate_candidates(dm, cands, 1)

BootKeys == {HexKey(168), SymKey("TS")}
BootWordLists == {<< >>, << 4660 >>, << 0, 0 >>, << 0, 4660 >>}
TomlD == TomlOf(<< SectionLine("devices"), EntryLine(SymKey("D"), Val(2, "")) >>)
TomlT == TomlOf(<< SectionLine("devices"), EntryLine(SymKey("T"), Val(1, "")) >>)
Candidates == {TomlMissing, TomlUnreadable, TomlD}
Paths == {NoPath, SomePath(TomlMissing), SomePath(TomlT)}

\* the snapshot files an earlier run leaves behind
OldFiles == {NoFile, CorruptFile} \cup {save_to_file(s) : s \in InitStores}

NoBoot == [path |-> NoPath, cands |-> << TomlMissing, TomlMissing >>, file |-> NoFile]

InitBoot ==
    /\ \E file \in OldFiles :
         /\ store = new_with_assignment(file, NoPath, NoBoot.cands)
         /\ app = [phase |-> "running", file |-> file, before |-> DeviceMap_new,
                   outcome |-> "none", nset |-> 0, boots |-> 0, boot |-> NoBoot]
    /\ registry = TRUE
    /\ hphase = "idle"
    /\ hprev = NoCall
    /\ hlast = NoCall
    /\ ConnIdle

\* MockServer::set_words on the running server
BootSet(key, addr, words) ==
    /\ app.phase \in {"running", "booted"}
    /\ app.nset < MaxWords
    /\ store' = server_set_words(store, key, Usize(addr), words)
    /\ app' = [app EXCEPT !.phase = "running", !.nset = @ + 1]
    /\ UNCHANGED << registry, hvars, cvars >>

\* stop_mock with no connection open: save_snapshot, its result dropped,
\* then dm.clear().  The write of the file succeeds, fails leaving the file
\* as it was, or fails leaving a truncated file
BootStop(outcome) ==
    /\ app.phase \in {"running", "booted"}
    /\ app.boots < MaxBoots
    /\ store' = DeviceMap_new
    /\ app' = [app EXCEPT !.phase = "stopped",
                          !.before = store,
                          !.outcome = outcome,
                          !.file = CASE outcome = "written" -> save_to_file(store)
                                     [] outcome = "failed" -> app.file
                                     [] outcome = "truncated" -> CorruptFile]
    /\ UNCHANGED << registry, hvars, cvars >>

\* MockServer::new_with_assignment(assignment_path) in a directory holding
\* the two default candidates cands
BootNew(path, cands) ==
    /\ app.phase = "stopped"
    /\ store' = new_with_assignment(app.file, path, cands)
    /\ app' = [app EXCEPT !.phase = "booted", !.boots = @ + 1,
                          !.boot = [path |-> path, cands |-> cands, file |-> app.file]]
    /\ UNCHANGED << registry, hvars, cvars >>

NextBoot ==
    \/ \E key \in BootKeys, addr \in Addrs, words \in BootWordLists : BootSet(key, addr, words)
    \/ \E outcome \in {"written", "failed", "truncated"} : BootStop(outcome)
    \/ \E path \in Paths, c1 \in Candidates, c2 \in Candidates : BootNew(path, << c1, c2 >>)

SpecBoot == InitBoot /\ [][NextBoot]_vars

----------------------------------------------------------------------------
(* Two connection tasks in the handler at once: one serves a read request, *)
(* the other a write request.  A step is what a task does under one        *)
(* acquisition of the store's lock.                                        *)

\* a reader that takes the read lock anew for every word
points_per_lock_one(kind, count) == 1

\* the points a read request reads under one acquisition of the read lock:
\* get_words(key, start, count) for words, get_words(key, start + i, 1) for
\* every bit
points_per_lock(kind, count) == IF kind = "read" THEN count ELSE 1

\* the response payload of the points read
read_payload(kind, vals) ==
    IF kind = "read" THEN WordsLE(vals)
    ELSE PackNibbles([i \in 1 .. Len(vals) |-> IF vals[i] # 0 THEN 1 ELSE 0])

RaceReads == {r \in ReadRequests \cup BitReadRequests : r.dev = 168}
RaceWrites ==
    {w \in WriteRequests \cup BitWriteRequests : w.dev = 168 /\ Len(w.words) <= MaxWords}

NoReader == [state |-> "idle", req |-> NoCall.req, p |-> NoParams, vals |-> << >>,
             payload |-> << >>]
NoWriter == [done |-> FALSE, during |-> FALSE, pre |-> DeviceMap_new, post |-> DeviceMap_new]

InitRace ==
    /\ store \in InitStores
    /\ registry \in BOOLEAN
    /\ hphase = "idle"
    /\ hprev = NoCall
    /\ hlast = NoCall
    /\ ConnIdle
    /\ app = [rd |-> NoReader, wr |-> NoWriter]

\* one connection task enters the handler with a read request and decodes it
ReaderStart(req) ==
    /\ app.rd.state = "idle"
    /\ LET data == req.body
           p == read_start_and_device_and_count(
                    data, u16_from_le_bytes(At(data, 0), At(data, 1)),
                    u16_from_le_bytes(At(data, 2), At(data, 3)))
       IN app' = [app EXCEPT !.rd = [state |-> IF p.count = 0 THEN "done" ELSE "reading",
                                     req |-> req, p |-> p, vals |-> << >>,
                                     payload |-> << >>]]
    /\ UNCHANGED << store, registry, hvars, cvars >>

\* store.read().await; get_words(..): the next points of the request
ReaderStep ==
    /\ app.rd.state = "reading"
    /\ LET rd == app.rd
           n == points_per_lock(rd.req.kind, rd.p.count)
           got == get_words(store, key_literal(rd.p.device),
                            UAdd(rd.p.start, Len(rd.vals)), n)
           vals == rd.vals \o got
       IN app' = [app EXCEPT !.rd.vals = vals,
                             !.rd.state = IF Len(vals) >= rd.p.count THEN "done" ELSE "reading",
                             !.rd.payload = IF Len(vals) >= rd.p.count
                                            THEN read_payload(rd.req.kind, vals) ELSE << >>]
    /\ UNCHANGED << store, registry, hvars, cvars >>

\* the other connection task serves a write request: store.write().await
\* once, all set_words under it
WriterRun(req) ==
    /\ ~app.wr.done
    /\ store' = handle_request_and_apply_store(store, registry, req.body).store
    /\ app' = [app EXCEPT !.wr = [done |-> TRUE, during |-> app.rd.state = "reading",
                                  pre |-> store, post |-> store']]
    /\ UNCHANGED << registry, hvars, cvars >>

NextRace ==
    \/ \E req \in RaceReads : ReaderStart(req)
    \/ ReaderStep
    \/ \E req \in RaceWrites : WriterRun(req)

SpecRace == InitRace /\ [][NextRace]_vars

----------------------------------------------------------------------------
(* Direct handler calls with the requests the handler rejects, next to     *)
(* writes it accepts                                                       *)

ErrRequests ==
    EchoRequests \cup ShortRequests \cup WriteRequests
      \cup {[kind |-> r.kind, layout |-> r.layout, dev |-> r.dev, addr |-> r.addr,
             words |-> r.words, body |-> r.body] :
               r \in {t \in TooShortWrites : Len(t.words) < t.count}}

NextErr == \E req \in ErrRequests : hphase = "idle" /\ HandlerCall(req)

SpecErr == InitH /\ [][NextErr]_vars

----------------------------------------------------------------------------
(* Direct handler calls over the device codes the two layouts can carry:   *)
(* one byte in the Q-series layout, two bytes in the R-series layout       *)

\* 0x90 and 0xA8 fit one byte; 0x0100 and 0x01A8 need two
CodesOf(layout) == IF layout = "Q" THEN {144, 168} ELSE {144, 168, 256, 424}

WideRequests ==
    {[kind |-> "write", layout |-> l, dev |-> d, addr |-> a, words |-> ws,
      body |-> BodyWriteWords(l, d, a, ws)] :
        l \in Layouts, d \in CodesOf("R"), a \in Addrs, ws \in WordLists}
    \cup
    {[kind |-> "read", layout |-> l, dev |-> d, addr |-> a, words |-> << n >>,
      body |-> BodyReadWords(l, d, a, n)] :
        l \in Layouts, d \in CodesOf("R"), a \in Addrs, n \in 1 .. MaxWords}

NextWide == \E req \in WideRequests : req.dev \in CodesOf(req.layout) /\ HandlerCall(req)

SpecWide == InitH /\ [][NextWide]_vars

----------------------------------------------------------------------------
(* The writes of a connection task with every outcome of try_write: the    *)
(* whole response, an error, or Ok(n) with n below the length of the       *)
(* response (server.rs).  One connection, frames sent whole.               *)

\* the byte counts a short try_write returns
ShortLens == {1, 10}

\* try_write(&out) returns Ok(n), n < out.len(): the match arm `Ok(_) => Ok(())`
\* takes it as a success and the frame loop goes on
WriteRespShort(c, n) ==
    /\ pc[c] = "write"
    /\ LET out == build_mc_response_from_request(McRequest(cur[c]), resp[c],
                                                 detect_format_from_frame(cur[c]))
           e == hist[c][Len(hist[c])]
       IN /\ n < Len(out)
          /\ outs' = [outs EXCEPT ![c] = Append(@, SubSeq(out, 1, n))]
          /\ FrameLoop(c, acc[c], SetLast(hist[c], "short", e.ok, e.payload))
    /\ UNCHANGED << store, registry, app, hvars, listener, wire, fin, tosend, nsent,
                    resp, sent, cause, before >>

\* the same outcome for the error frame of a frame no request is built from
WriteParseErrShort(c, n) ==
    /\ pc[c] = "write_perr"
    /\ LET out == parse_error_frame(cur[c])
           e == hist[c][Len(hist[c])]
       IN /\ n < Len(out)
          /\ outs' = [outs EXCEPT ![c] = Append(@, SubSeq(out, 1, n))]
          /\ FrameLoop(c, acc[c], SetLast(hist[c], "short", e.ok, e.payload))
    /\ UNCHANGED << store, registry, app, hvars, listener, wire, fin, tosend, nsent,
                    resp, sent, cause, before >>

NextWrite ==
    \/ AcceptError
    \/ \E c \in FirstConn :
         \/ Accept(c)
         \/ \E f \in Frames : ClientSendFrame(c, f.bytes, Len(f.bytes))
         \/ ClientClose(c)
         \/ ServerRead(c)
         \/ PeerClosed(c)
         \/ ReadError(c)
         \/ Timeout(c)
         \/ Dispatch(c)
         \/ \E wrote \in BOOLEAN : WriteResp(c, wrote)
         \/ \E n \in ShortLens : WriteRespShort(c, n)
         \/ \E wrote \in BOOLEAN : WriteParseErr(c, wrote)
         \/ \E n \in ShortLens : WriteParseErrShort(c, n)
         \/ \E wrote \in BOOLEAN : WriteDetectErr(c, wrote)

SpecWrite == Init /\ [][NextWrite]_vars

-----------------------------------------------------------------------------
(* The idle deadline of a connection task (server.rs): every read is       *)
(* wrapped in its own tokio::time::timeout of TIM_AWAIT_MS.  Time passes   *)
(* in ticks while a read is pending; app.idle counts the ticks since the   *)
(* pending read was started, app.since the ticks since the connection was  *)
(* accepted or last took a frame out of its accumulator (it stops counting *)
(* at MaxSince).  The other steps of the task take no time.                *)

\* TIM_AWAIT_MS in ticks
TimAwait == 2

MaxSince == 4

IdleClock == [idle |-> 0, since |-> 0]

InitIdle ==
    /\ store = DeviceMap_new
    /\ registry = TRUE
    /\ hphase = "idle"
    /\ hprev = NoCall
    /\ hlast = NoCall
    /\ ConnIdle
    /\ app = IdleClock

\* the frames the peer sends, whole, in two pieces or byte by byte
IdleFrames == {FrameNamed("read1"), FrameNamed("empty3"), FrameNamed("badlen3")}

\* one tick passes while the read is pending and nothing has arrived; the
\* timeout of the read expires when TimAwait ticks have passed
Tick(c) ==
    /\ pc[c] = "read"
    /\ wire[c] = << >>
    /\ app.idle < TimAwait
    /\ app' = [idle |-> app.idle + 1,
               since |-> IF app.since < MaxSince THEN app.since + 1 ELSE MaxSince]
    /\ UNCHANGED << store, registry, hvars, cvars >>

\* the peer sends one more byte of the frame it started, not the last one
PeerSendByte(c) ==
    /\ pc[c] \notin {"free", "closed"}
    /\ ~fin[c]
    /\ Len(tosend[c]) > 1
    /\ wire' = [wire EXCEPT ![c] = Append(@, Head(tosend[c]))]
    /\ tosend' = [tosend EXCEPT ![c] = Tail(@)]
    /\ UNCHANGED << store, registry, app, hvars, listener, pc, fin, nsent, acc, cur,
                    resp, outs, hist, sent, cause, before >>

\* timeout(tim_await_ms, read_fut).await gives Ok(Ok(n)), n > 0: the bytes
\* go to acc and the frame loop runs; the next read gets a new timeout
ReadWithin(c) ==
    /\ pc[c] = "read"
    /\ wire[c] # << >>
    /\ wire' = [wire EXCEPT ![c] = << >>]
    /\ FrameLoop(c, acc[c] \o wire[c], hist[c])
    /\ app' = [idle |-> 0, since |-> IF pc'[c] = "read" THEN app.since ELSE 0]
    /\ UNCHANGED << store, registry, hvars, listener, fin, tosend, nsent, resp,
                    outs, sent, cause, before >>

\* timeout(tim_await_ms, read_fut).await gives Err(_): close_with_rst
IdleExpires(c) ==
    /\ app.idle = TimAwait
    /\ Timeout(c)

NextIdle ==
    \E c \in FirstConn :
      \/ Accept(c)
      \/ \E f \in IdleFrames : \E k \in 1 .. Len(f) : ClientSendFrame(c, f, k)
      \/ PeerSendByte(c)
      \/ ClientSendRest(c)
      \/ ClientClose(c)
      \/ Tick(c)
      \/ ReadWithin(c)
      \/ PeerClosed(c)
      \/ ReadError(c)
      \/ IdleExpires(c)
      \/ Dispatch(c)
      \/ \E wrote \in BOOLEAN : WriteResp(c, wrote)
      \/ \E wrote \in BOOLEAN : WriteParseErr(c, wrote)
      \/ \E wrote \in BOOLEAN : WriteDetectErr(c, wrote)

SpecIdle == InitIdle /\ [][NextIdle]_vars

\* the runtime polls a connection task that can take a step, time goes on,
\* and a timeout that has expired is delivered
FairIdle ==
    \A c \in FirstConn :
      /\ WF_vars(Tick(c))
      /\ WF_vars(IdleExpires(c))
      /\ WF_vars(ReadWithin(c))
      /\ WF_vars(PeerClosed(c))
      /\ WF_vars(Dispatch(c))
      /\ WF_vars(\E wrote \in BOOLEAN : WriteResp(c, wrote))
      /\ WF_vars(\E wrote \in BOOLEAN : WriteParseErr(c, wrote))
      /\ WF_vars(\E wrote \in BOOLEAN : WriteDetectErr(c, wrote))

SpecIdleLive == SpecIdle /\ FairIdle

\* a connection task that reads returns once its peer has stopped sending
ConnectionTaskReturns == \A c \in FirstConn : (pc[c] = "read") ~> (pc[c] = "closed")

-----------------------------------------------------------------------------
(* Claims about direct handler calls (specification SpecH)                 *)

\* C1: a well-formed write-words request for the words w at (device,
\* address), in the Q-series or the R-series body layout, followed by a
\* read-words request for |w| words at the same device and address in the
\* same layout, returns exactly w as little-endian bytes.
C1_WriteThenReadReturnsWritten ==
    (/\ hphase = "two"
     /\ hprev.req.kind = "write"
     /\ hlast.req.kind = "read"
     /\ hlast.req.layout = hprev.req.layout
     /\ hlast.req.dev = hprev.req.dev
     /\ hlast.req.addr = hprev.req.addr
     /\ hlast.req.words = << Len(hprev.req.words) >>)
    => (hlast.ok /\ hlast.payload = WordsLE(hprev.req.words))

\* the ASCII codes of 0-9, A-F, a-f
HexAscii == {48, 49, 50, 51, 52, 53, 54, 55, 56, 57,
             65, 66, 67, 68, 69, 70, 97, 98, 99, 100, 101, 102}

\* C10: for the echo command, when the bytes after the 4-byte command header
\* number between 1 and 960 and all are ASCII hex digits the payload is
\* those bytes unchanged; otherwise the handler returns an error and no
\* payload; in both cases the store is neither locked for reading or
\* writing nor changed.
C10_EchoVerbatimOrError ==
    (hphase # "idle" /\ hlast.req.kind = "echo")
    => LET rest == SubSeq(hlast.req.body, 5, Len(hlast.req.body))
           valid == /\ Len(rest) >= 1
                    /\ Len(rest) <= 960
                    /\ \A i \in 1 .. Len(rest) : rest[i] \in HexAscii
       IN /\ valid => (hlast.ok /\ hlast.payload = rest)
          /\ ~valid => (~hlast.ok /\ hlast.payload = << >>)
          /\ store = hlast.pre
          /\ hlast.rlocks = 0
          /\ hlast.wlocks = 0

\* C10 witness: an echo of 960 hex digits was answered verbatim
C10_Witness ==
    /\ hphase = "one"
    /\ hlast.req.kind = "echo"
    /\ hlast.ok
    /\ Len(hlast.payload) = 960
    /\ hlast.pre # DeviceMap_new

----------------------------------------------------------------------------
(* Claims about TCP connections (specifications Spec and SpecPartial)      *)

\* the location the write and read frames of the catalogue name: D0
DKey == HexKey(168)
DAddr == Usize(0)

IsWriteFrame(frame) == frame \in {FrameNamed("write"), FrameNamed("write_low")}
IsReadFrame(frame) == frame = FrameNamed("read1")

\* the words a write frame of the catalogue carries
WrittenBy(frame) == IF frame = FrameNamed("write") THEN << 4660 >> ELSE << 1, 4660 >>

\* the end code of a response frame of the given shape
EndCode(out, format) ==
    IF format = "MC4E" THEN u16_from_le_bytes(At(out, 13), At(out, 14))
    ELSE u16_from_le_bytes(At(out, 9), At(out, 10))

Last(q) == q[Len(q)]

\* C2: on a TCP connection the store changes only when a complete write
\* frame is dispatched, and the dispatch of a write frame applies the words
\* of that frame at its address, once, however the frame was split: a strict
\* prefix followed by a close changes nothing.
C2_PartialFrameSafety ==
    [][ /\ store' # store =>
             \E c \in Conns : /\ pc[c] = "dispatch"
                              /\ pc'[c] = "write"
                              /\ IsWriteFrame(cur[c])
        /\ \A c \in Conns :
             (pc[c] = "dispatch" /\ pc'[c] = "write" /\ IsWriteFrame(cur[c]))
               => store' = set_words(store, DKey, DAddr, WrittenBy(cur[c])) ]_vars

\* the response that answers an entry of the connection's frame history
Answer(e) ==
    IF e.kind = "req"
    THEN build_mc_response_from_request(McRequest(e.frame), e.payload,
                                        detect_format_from_frame(e.frame))
    ELSE parse_error_frame(e.frame)

NumWritten(h) == Cardinality({ i \in 1 .. Len(h) : h[i].st = "written" })

\* C3: within one connection the i-th response answers the i-th complete
\* frame received, a response is written only after the handler call for its
\* frame has returned, and a frame is taken up only after the response to
\* every earlier frame has been written.
C3_FifoOneAtATime ==
    \A c \in Conns :
      LET h == hist[c]
          o == outs[c]
          extra == IF cause[c] = "malformed" THEN 1 ELSE 0
      IN /\ \A i \in 1 .. Len(h) : i <= Len(sent[c]) /\ h[i].frame = sent[c][i]
         /\ \A i \in 1 .. (Len(h) - 1) : h[i].st = "written"
         /\ \A i \in 1 .. Len(h) :
              h[i].st = "written" => i <= Len(o) /\ o[i] = Answer(h[i])
         /\ Len(o) <= NumWritten(h) + extra

\* C4: a read that follows a write of the same address on the same
\* connection, with no frame of another connection in between, carries the
\* words of the write.
C4_WriteThenReadSameConnection ==
    \A c \in Conns :
      \A i \in 1 .. (Len(hist[c]) - 1) :
        ( /\ IsWriteFrame(hist[c][i].frame)
          /\ IsReadFrame(hist[c][i + 1].frame)
          /\ hist[c][i + 1].st \in {"dispatched", "written", "failed"}
          /\ \A d \in Conns \ {c} : hist[d] = << >> )
        => /\ hist[c][i + 1].ok
           /\ hist[c][i + 1].payload = WordsLE(SubSeq(WrittenBy(hist[c][i].frame), 1, 1))

\* C5: a connection whose read times out (no byte arrived) goes from reading
\* to closed without a response byte, and a closed connection stays closed:
\* nothing is read, dispatched or written on it afterwards.
C5_IdleTimeoutCloses ==
    [][ \A c \in Conns :
          /\ (cause[c] # "timeout" /\ cause'[c] = "timeout")
               => /\ pc[c] = "read"
                  /\ wire[c] = << >>
                  /\ pc'[c] = "closed"
                  /\ outs'[c] = outs[c]
                  /\ store' = store
          /\ pc[c] = "closed"
               => /\ pc'[c] = "closed"
                  /\ outs'[c] = outs[c]
                  /\ hist'[c] = hist[c]
                  /\ acc'[c] = acc[c]
                  /\ cause'[c] = cause[c] ]_vars

\* a connection was closed by the idle deadline after it had been served
C5_Witness ==
    \E c \in Conns : /\ cause[c] = "timeout"
                     /\ pc[c] = "closed"
                     /\ Len(outs[c]) = 1
                     /\ hist[c][1].st = "written"

\* C6: the end of a connection leaves the listener and the store as they
\* were, and a connection accepted after it is served: its write followed by a
\* read of the same address returns the written value.
C6_ServerHealthyAfterConnectionEnd ==
    \A c \in Conns :
      ( /\ before[c] # {}
        /\ Len(hist[c]) = 2
        /\ IsWriteFrame(hist[c][1].frame)
        /\ IsReadFrame(hist[c][2].frame)
        /\ hist[c][2].st \in {"dispatched", "written", "failed"} )
      => /\ hist[c][2].ok
         /\ hist[c][2].payload = WordsLE(SubSeq(WrittenBy(hist[c][1].frame), 1, 1))

\* C7: a frame for which the handler returned an error is answered with end
\* code 0x0050 and the connection is closed; it is never answered with end
\* code 0x0000.
C7_HandlerErrorAnswered ==
    [][ \A c \in Conns :
          (pc[c] = "write" /\ ~Last(hist[c]).ok /\ pc'[c] # "write")
            => /\ pc'[c] = "closed"
               /\ outs'[c] # outs[c]
                    => EndCode(Last(outs'[c]), detect_format_from_frame(cur[c])) = err_code ]_vars

C9_ParseErrorCloses ==
    [][ \A c \in Conns :
          (pc[c] = "write_perr" /\ pc'[c] # "write_perr")
            => /\ pc'[c] = "closed"
               /\ outs'[c] # outs[c] => Last(outs'[c]) = parse_error_frame(cur[c]) ]_vars

\* the envelope the request frame f calls for, around the payload d
HasMc4eEnvelope(f) ==
    \/ (Len(f) >= 2 /\ SubSeq(f, 1, 2) \in {<< 80, 0 >>, << 208, 0 >>})
    \/ McRequest(f).has_serial

EnvelopeOfRequest(e, f, d) ==
    IF HasMc4eEnvelope(f)
    THEN /\ Len(e) = 15 + Len(d)
         /\ SubSeq(e, 1, 2) = << 208, 0 >>
         /\ SubSeq(e, 3, 4) = U16LE(McRequest(f).serial_number)
         /\ SubSeq(e, 5, 6) = << 0, 0 >>
         /\ SubSeq(e, 7, 11) = McRequest(f).access_route
         /\ SubSeq(e, 16, Len(e)) = d
    ELSE /\ Len(e) = 11 + Len(d)
         /\ SubSeq(e, 1, 2) = << 208, 0 >>
         /\ SubSeq(e, 3, 7) = McRequest(f).access_route
         /\ SubSeq(e, 12, Len(e)) = d

DataLen(out, format) ==
    IF format = "MC4E" THEN u16_from_le_bytes(At(out, 11), At(out, 12))
    ELSE u16_from_le_bytes(At(out, 7), At(out, 8))

\* C12: in every response frame the data-length field is the number of
\* payload bytes behind the end code plus 2, for every count a read request
\* can carry, up to 65535 words.
C12_DataLenIsPayloadPlus2 ==
    hphase = "one" => DataLen(hlast.header, hlast.format) = hlast.paylen + 2

\* the handler call for the frame of connection c returns in this step
Dispatched(c) == pc[c] = "dispatch" /\ pc'[c] = "write"

\* the response to the frame of connection c is written in this step
Written(c) == pc[c] = "write" /\ outs'[c] # outs[c]

\* C13: a write request that the handler accepts returns the empty payload
\* and the store holds its words when the handler returns; its response
\* carries data length 2 and end code 0x0000; the store changes at no other
\* step, and a read request on any connection returns what the store holds
\* at its address when it is dispatched, so a read that starts after the
\* response of a write sees the words of the last such write.
C13_WriteVisibleBeforeResponse ==
    [][ /\ \A c \in Conns :
             /\ (Dispatched(c) /\ IsWriteFrame(cur[c]) /\ Last(hist'[c]).ok)
                  => /\ resp'[c] = << >>
                     /\ get_words(store', DKey, DAddr, Len(WrittenBy(cur[c])))
                          = WrittenBy(cur[c])
             /\ (Written(c) /\ IsWriteFrame(cur[c]) /\ Last(hist[c]).ok)
                  => LET out == Last(outs'[c])
                         fmt == detect_format_from_frame(cur[c])
                     IN /\ DataLen(out, fmt) = 2
                        /\ EndCode(out, fmt) = 0
                        /\ Len(out) = IF fmt = "MC4E" THEN 15 ELSE 11
             /\ (Dispatched(c) /\ IsReadFrame(cur[c]))
                  => /\ store' = store
                     /\ Last(hist'[c]).ok
                     /\ resp'[c] = WordsLE(get_words(store, DKey, DAddr, 1))
        /\ store' # store => \E c \in Conns : Dispatched(c) /\ IsWriteFrame(cur[c]) ]_vars


----------------------------------------------------------------------------
(* Claims about the store (specification SpecStore)                        *)

\* C14: get_words leaves the store as it was (the same keys, every vector
\* with the same content and length); on a key that was never written it
\* returns count zeros and has_key stays false.  A read-words or read-bits
\* request through the handler leaves the store as it was too, and on the
\* empty store it returns zeros and creates no key.
C14_GetWordsLeavesStore ==
    /\ hlast.op = "get"
         => /\ store = hlast.pre
            /\ ~has_key(hlast.pre, hlast.key)
                 => /\ hlast.out = Fill(0, hlast.count)
                    /\ ~has_key(store, hlast.key)
    /\ hlast.op \in {"read", "readbits"}
         => /\ store = hlast.pre
            /\ hlast.pre = DeviceMap_new
                 => /\ \A i \in 1 .. Len(hlast.out) : hlast.out[i] = 0
                    /\ DOMAIN store = {}

\* a key that was never written was read, with a positive count, from a
\* store that holds other keys
C14_Witness ==
    /\ hlast.op = "get"
    /\ hprev.op = "set"
    /\ ~has_key(hlast.pre, hlast.key)
    /\ hlast.count = 2
    /\ hlast.out = << 0, 0 >>

\* a read that follows a write, with the key and address of the write
SetThenGet ==
    /\ hlast.op = "get"
    /\ hprev.op = "set"
    /\ hlast.key = hprev.key
    /\ hlast.addr = hprev.addr

\* C15: after set_words(k, a, w) an immediate get_words(k, a, |w|) returns w
\* and has_key(k) is true, for every key form, also when w is empty.
C15_SetThenGetReturnsWritten ==
    /\ hlast.op = "set" => has_key(store, hlast.key)
    /\ (SetThenGet /\ hlast.count = Len(hprev.words))
         => /\ hlast.out = hprev.words
            /\ has_key(store, hlast.key)

\* the empty word list was written under a key the store did not hold, and
\* read back
C15_Witness ==
    /\ SetThenGet
    /\ hprev.words = << >>
    /\ hlast.count = 0
    /\ ~has_key(hprev.pre, hprev.key)
    /\ has_key(store, hlast.key)

\* the effective address of the write before the read, and the device's
\* vector before that write
WriteAt == normalize_key_addr(hprev.key, hprev.addr)
VecBefore ==
    IF code_val(WriteAt.key) \in DOMAIN hprev.pre
    THEN hprev.pre[code_val(WriteAt.key)] ELSE EmptyVec

\* C16 as stated: set_words(k, a, w) followed by get_words(k, a, |w|+m)
\* returns w followed by m zeros, in every store.
C16_Original ==
    (SetThenGet /\ hlast.count >= Len(hprev.words))
      => hlast.out = hprev.words \o Fill(0, hlast.count - Len(hprev.words))

\* C16: set_words(k, a, w) followed by get_words(k, a, |w|+m) returns w
\* followed by m zeros when the device's vector held no word at or behind
\* a+|w| before the write (as in a fresh store); words already stored behind
\* the written range are returned as they were.
C16_SetThenGetZeroExtends ==
    (SetThenGet /\ hlast.count >= Len(hprev.words))
      => LET n == Len(hprev.words)
             m == hlast.count - n
         IN /\ ~ULess(UAdd(WriteAt.addr, n), VecBefore.len)
                 => hlast.out = hprev.words \o Fill(0, m)
            /\ hlast.out = hprev.words
                 \o [i \in 1 .. m |-> VecGet(VecBefore, UAdd(WriteAt.addr, n + i - 1))]

\* a word was written and read back with two more words behind it, which the
\* store did not hold
C16_Witness ==
    /\ SetThenGet
    /\ hprev.words = << 4660 >>
    /\ hlast.count = 3
    /\ hlast.out = << 4660, 0, 0 >>
    /\ VecBefore.len = Usize(0)

\* the device and effective address of the write just made, its vector
\* before and after, and the addresses the scenario can name
SetAt == normalize_key_addr(hlast.key, hlast.addr)
SetDev == code_val(SetAt.key)
SetOld == IF SetDev \in DOMAIN hlast.pre THEN hlast.pre[SetDev] ELSE EmptyVec
SetNew == store[SetDev]
SetEnd == UAdd(SetAt.addr, Len(hlast.words))
NearAddrs == {Usize(j) : j \in 0 .. (2 * MaxWords + 3)}

\* C17: set_words(k, a, w) changes only the words of k's device at
\* a .. a+|w|-1: every other device's vector is as it was, the words of the
\* device outside the range keep their value, the range holds w, the length
\* becomes max(old length, a+|w|), and the addresses between the old length
\* and a read zero.
C17_SetWordsFrame ==
    hlast.op = "set"
      => /\ DOMAIN store = DOMAIN hlast.pre \cup {SetDev}
         /\ \A d \in DOMAIN hlast.pre \ {SetDev} : store[d] = hlast.pre[d]
         /\ \A a \in NearAddrs \cup DOMAIN SetOld.nz \cup DOMAIN SetNew.nz :
              (ULess(a, SetAt.addr) \/ ~ULess(a, SetEnd))
                => VecGet(SetNew, a) = VecGet(SetOld, a)
         /\ \A i \in 1 .. Len(hlast.words) :
              VecGet(SetNew, UAdd(SetAt.addr, i - 1)) = hlast.words[i]
         /\ SetNew.len = IF ULess(SetOld.len, SetEnd) THEN SetEnd ELSE SetOld.len
         /\ ~ULess(SetNew.len, SetOld.len)
         /\ \A a \in NearAddrs :
              (~ULess(a, SetOld.len) /\ ULess(a, SetAt.addr)) => VecGet(SetNew, a) = 0

\* a word was written at address 2 of a device the store did not hold, in a
\* store that holds other devices: the vector was created over a gap
C17_Witness ==
    /\ hlast.op = "set"
    /\ DOMAIN hlast.pre # {}
    /\ SetDev \notin DOMAIN hlast.pre
    /\ SetAt.addr = Usize(2)
    /\ hlast.words = << 4660 >>
    /\ SetNew.len = Usize(3)

\* the key is a bare symbol, a hex literal or a decimal literal of a u8
Accepted(key) ==
    \/ key.form = "symbol"
    \/ key.form \in {"hex", "dec"} /\ key.code \in 0 .. 255

\* the device code an accepted key names
CodeOf(key) == IF key.form = "symbol" THEN device_code_q(key.sym) ELSE key.code

\* normalize_key_addr applied to its own result
Renormalized(key, addr) ==
    normalize_key_addr(normalize_key_addr(key, addr).key,
                       normalize_key_addr(key, addr).addr)

\* C18: a write through an accepted key form that resolves to code C and a
\* read through the literal "0xNN" of C (or the other way round), at the same
\* address, address the same vector: the read returns the written words, by
\* the store and by the MockServer helpers alike; normalizing a normalized
\* key gives the same key and address, and the helper's write equals the
\* store's write.
C18_KeyFormsInterchangeable ==
    /\ ( /\ hlast.op = "get"
         /\ hprev.op = "set"
         /\ Accepted(hlast.key) /\ Accepted(hprev.key)
         /\ (hlast.key = HexKey(CodeOf(hprev.key)) \/ hprev.key = HexKey(CodeOf(hlast.key)))
         /\ hlast.addr = hprev.addr
         /\ hlast.count = Len(hprev.words) )
         => hlast.out = hprev.words
    /\ hlast.op \in {"set", "get"}
         => /\ Renormalized(hlast.key, hlast.addr) = normalize_key_addr(hlast.key, hlast.addr)
            /\ normalize_key_addr(hlast.key, hlast.addr).key
                 = HexKey(code_val(normalize_key_addr(hlast.key, hlast.addr).key))
    /\ hlast.op = "set"
         => store = set_words(hlast.pre, hlast.key, hlast.addr, hlast.words)
    /\ hlast.op = "get"
         => hlast.out = get_words(hlast.pre, hlast.key, hlast.addr, hlast.count)

\* words written through the decimal literal "168" by the MockServer helper
\* were read through "0xA8" from the store
C18_Witness ==
    /\ hlast.op = "get" /\ hprev.op = "set"
    /\ hprev.key = DecKey(168) /\ hprev.via = "server"
    /\ hlast.key = HexKey(168) /\ hlast.via = "store"
    /\ hlast.addr = hprev.addr
    /\ hprev.words = << 4660, 0 >>
    /\ hlast.out = << 4660, 0 >>

\* C19: for a combined key of symbol S and address N the effective address
\* is N when the explicit address is 0 and the explicit address otherwise:
\* a write through the combined key at 0 is read back through S at N, a
\* write through S at A is read back through the combined key of S and A at
\* 0, and a write through the combined key at a non-zero address A puts the
\* words at A and leaves the word at N as it was when N is outside the
\* written range.
C19_CombinedKeyAddress ==
    /\ ( /\ hlast.op = "get" /\ hprev.op = "set"
         /\ hprev.key.form = "combined" /\ hprev.addr = Usize(0)
         /\ hlast.key = SymKey(hprev.key.sym) /\ hlast.addr = Usize(hprev.key.num)
         /\ hlast.count = Len(hprev.words) )
         => hlast.out = hprev.words
    /\ ( /\ hlast.op = "get" /\ hprev.op = "set"
         /\ hprev.key.form = "symbol"
         /\ hlast.key.form = "combined" /\ hlast.key.sym = hprev.key.sym
         /\ hlast.addr = Usize(0) /\ hprev.addr = Usize(hlast.key.num)
         /\ hlast.count = Len(hprev.words) )
         => hlast.out = hprev.words
    /\ ( /\ hlast.op = "set"
         /\ hlast.key.form = "combined" /\ hlast.addr # Usize(0) )
         => LET sym == SymKey(hlast.key.sym)
                n == Len(hlast.words)
                N == Usize(hlast.key.num)
            IN /\ get_words(store, sym, hlast.addr, n) = hlast.words
               /\ (ULess(N, hlast.addr) \/ ~ULess(N, UAdd(hlast.addr, n)))
                    => get_words(store, sym, N, 1) = get_words(hlast.pre, sym, N, 1)

\* a word was written through "D2" at address 0 and read back through "D" at
\* address 2
C19_Witness ==
    /\ hlast.op = "get" /\ hprev.op = "set"
    /\ hprev.key = CombKey("D", 2) /\ hprev.addr = Usize(0)
    /\ hprev.words = << 4660 >>
    /\ hlast.key = SymKey("D") /\ hlast.addr = Usize(2)
    /\ hlast.out = << 4660 >>

----------------------------------------------------------------------------
(* Claims about start_mock (specification SpecMock)                        *)

LiveTcp == {c \in Calls : app.task[TcpHandle(c)] = "live"}
LiveUdp == {c \in Calls : app.task[UdpHandle(c)] = "live"}

\* the call c spawns a task in this step
Spawns(c) ==
    \E h \in {TcpHandle(c), UdpHandle(c)} :
      app.task[h] = "unspawned" /\ app'.task[h] = "live"

\* C20: a start_mock call spawns nothing while a task spawned by another
\* start_mock call is live, so at most one TCP listener task and at most one
\* UDP listener task are live, in every interleaving of the calls.
C20_StartMockIdempotent ==
    [][ /\ \A c \in Calls :
             Spawns(c) => \A d \in Calls \ {c} :
                            /\ app.task[TcpHandle(d)] # "live"
                            /\ app.task[UdpHandle(d)] # "live"
        /\ Cardinality(LiveTcp)' <= 1
        /\ Cardinality(LiveUdp)' <= 1 ]_vars

----------------------------------------------------------------------------
(* Claims about stop_mock (specification SpecStop)                         *)

\* C21: stop_mock aborts the tracked listener tasks, then saves a snapshot
\* taken under the store's read lock, then clears the store; the snapshot
\* written holds the content the store has when it is cleared, and once
\* stop_mock has returned the store is empty.
C21_StopOrderAndSnapshot ==
    [][ /\ app'.stop = "snapshotted" => app.stop \in {"aborted", "snapshotted"}
        /\ app'.stop = "cleared" => app.stop \in {"saved", "cleared"}
        /\ (app.stop = "saved" /\ app'.stop = "cleared")
             => /\ app.saved => app.file = store
                /\ store' = DeviceMap_new
        /\ app'.stop = "returned" => store' = DeviceMap_new ]_vars

\* C22: once stop_mock has returned no connection is accepted and no
\* connection task changes the store.
C22_NothingServedAfterStop ==
    [][ app.stop = "returned"
          => /\ store' = store
             /\ \A k \in Conns : app.conn[k] = "unspawned" => app'.conn[k] = "unspawned" ]_vars

----------------------------------------------------------------------------
(* Claims about the UDP listener (specification SpecUdp)                   *)

\* C23: whenever the UDP task waits for the next datagram, every datagram it
\* has received from a peer has been answered with one datagram to that
\* peer, in order, and the reply to a datagram is the response to that
\* datagram's own request and payload.
C23_OneDatagramOneReply ==
    listener = "accepting"
      => \A c \in Conns :
           /\ Len(outs[c]) = Len(hist[c])
           /\ \A i \in 1 .. Len(hist[c]) :
                i <= Len(outs[c]) =>
                  outs[c][i] = build_mc_response_from_request(
                                   McRequest(hist[c][i].frame), hist[c][i].payload,
                                   detect_format_from_frame(hist[c][i].frame))

----------------------------------------------------------------------------
(* Claims about too short write requests (specification SpecShort)         *)

\* C24: a write-words request that declares more words than its body
\* carries makes the handler return an error, with and without the registry,
\* and leaves the store as it was: no key is created and no word changes.
C24_TooShortWriteRejected ==
    hphase = "one"
      => /\ ~hlast.ok
         /\ store = hlast.pre

----------------------------------------------------------------------------
(* Claims about bit requests (specification SpecBits)                      *)

\* the word the store holds for device code d at address a
WordOf(s, d, a) == get_words(s, HexKey(d), Usize(a), 1)[1]

\* the word the store holds for device code d at the usize address u
WordAt(s, d, u) == IF d \in DOMAIN s THEN VecGet(s[d], u) ELSE 0

\* the addresses at which either store holds a word for device code d, and
\* the addresses near 0
AddrsOf(s, t, d) ==
    (IF d \in DOMAIN s THEN DOMAIN s[d].nz ELSE {})
      \cup (IF d \in DOMAIN t THEN DOMAIN t[d].nz ELSE {})
      \cup {Usize(a) : a \in 0 .. (2 * MaxWords + 2)}

BitOf(n) == IF n # 0 THEN 1 ELSE 0

\* C25: a write-bits request for count bits at (device, start), in either
\* body layout, returns an empty payload and stores 1 at start+i when nibble
\* i of the payload is non-zero and 0 when it is zero; every other word of
\* the store is as before.
C25_WriteBitsStoresNibbles ==
    (hphase = "one" /\ hlast.req.kind = "writebits")
      => LET r == hlast.req
             n == Len(r.words)
         IN /\ hlast.ok
            /\ hlast.payload = << >>
            /\ \A i \in 0 .. (n - 1) :
                 WordOf(store, r.dev, r.addr + i) = BitOf(r.words[i + 1])
            /\ \A d \in DOMAIN store \cup DOMAIN hlast.pre :
                 \A u \in AddrsOf(store, hlast.pre, d) :
                   (d # r.dev \/ u \notin {Usize(r.addr + i) : i \in 0 .. (n - 1)})
                     => WordAt(store, d, u) = WordAt(hlast.pre, d, u)

\* the nibble-packed bytes a read of n bits at (d, a) of store s is to return
BitsOfStore(s, d, a, n) ==
    PackNibbles([i \in 1 .. n |-> BitOf(WordOf(s, d, a + i - 1))])

\* C26: a read-bits request for count bits at (device, start) returns
\* ceil(count/2) bytes holding, high nibble first, 1 for every non-zero
\* stored word and 0 otherwise, the unused low nibble of the last byte being
\* 0; after a write-bits of the same range it returns the written pattern
\* with every non-zero nibble as 1.
C26_ReadBitsReturnsNibbles ==
    (hphase # "idle" /\ hlast.req.kind = "readbits")
      => LET r == hlast.req
             n == r.words[1]
         IN /\ hlast.ok
            /\ Len(hlast.payload) = (n + 1) \div 2
            /\ hlast.payload = BitsOfStore(hlast.pre, r.dev, r.addr, n)
            /\ store = hlast.pre
            /\ (/\ hphase = "two"
                /\ hprev.req.kind = "writebits"
                /\ hprev.req.dev = r.dev
                /\ hprev.req.addr = r.addr
                /\ Len(hprev.req.words) = n)
                 => hlast.payload = PackNibbles([i \in 1 .. n |-> BitOf(hprev.req.words[i])])

----------------------------------------------------------------------------
(* Claims about seeding (specification SpecSeed)                           *)

Compounds == {"T", "LT", "ST", "LST", "C", "LC"}

\* the last line read was an entry of [devices] with a count above 0
Seeds(line) ==
    /\ line.kind = "entry"
    /\ app.was_in
    /\ parse_count(line.val).some
    /\ parse_count(line.val).n > 0

\* C27: seeding never creates the ZR key and the first write to ZR creates
\* it; an entry of a timer or counter symbol creates its three sub-device
\* keys with COUNT zero words each, a K or k suffix multiplying by 1024; a
\* line outside [devices] and an entry whose count is 0 or no number create
\* nothing.
C27_SeedingRules ==
    /\ app.phase = "seeding" => ~has_key(store, SymKey("ZR"))
    /\ app.phase = "written" => has_key(store, SymKey("ZR"))
    /\ (app.phase = "seeding" /\ app.nlines > 0)
         => LET line == app.line
            IN /\ (Seeds(line) /\ key_upper(line.key) \in Compounds)
                    => \A i \in 1 .. 3 :
                         LET t == targets(line.key)[i]
                             count == IF line.val.suffix = ""
                                      THEN line.val.num ELSE line.val.num * 1024
                         IN /\ has_key(store, t)
                            /\ ~ULess(store[device_code_q(t.sym)].len, Usize(count))
                            /\ store[device_code_q(t.sym)].nz = NoWords
               /\ ~Seeds(line) => store = app.pre

----------------------------------------------------------------------------
(* Claims about persistence (specification SpecBoot)                       *)

\* has_key and get_words answer alike in s and t
SameAnswers(s, t) ==
    \A c \in DOMAIN s \cup DOMAIN t \cup {0, 1, 168, 193} :
      /\ has_key(s, HexKey(c)) = has_key(t, HexKey(c))
      /\ \A a \in 0 .. (MaxWords + 2), n \in 0 .. (MaxWords + 2) :
           get_words(s, HexKey(c), Usize(a), n) = get_words(t, HexKey(c), Usize(a), n)

\* the stores seeding makes of the empty store
SeededStores ==
    {DeviceMap_new} \cup {populate_from_toml(DeviceMap_new, t.lines) : t \in {TomlD, TomlT}}

\* C28: saving a store and loading the saved file gives a store in which
\* has_key and get_words answer as before; so a new server constructed after
\* a stop (snapshot, then clear) holds the content the store had before the
\* stop; when no snapshot file exists loading yields no store and the
\* construction starts from the empty store.
C28_PersistenceRoundTrip ==
    /\ LET l == load_from_file(save_to_file(store))
       IN l.some /\ SameAnswers(l.dm, store)
    /\ app.phase = "booted" => SameAnswers(store, app.before)
    /\ (app.phase = "booted" /\ app.boot.file.state = "none")
         => /\ ~load_from_file(app.boot.file).some
            /\ store \in SeededStores

\* C29: new_with_assignment seeds from an assignment file only when no
\* snapshot was loaded or the loaded snapshot is empty; with a non-empty
\* snapshot the store equals the snapshot; when an assignment path is given
\* the default candidates play no part.
C29_SeedsOnlyWithoutSnapshot ==
    app.phase = "booted"
      => LET b == app.boot
             l == load_from_file(b.file)
         IN /\ (l.some /\ l.dm # DeviceMap_new) => store = l.dm
            /\ store # l.dm => (~l.some \/ l.dm = DeviceMap_new)
            /\ b.path.some
                 => store = IF l.dm # DeviceMap_new THEN l.dm
                            ELSE IF b.path.toml.state = "lines"
                                 THEN populate_from_toml(DeviceMap_new, b.path.toml.lines)
                                 ELSE DeviceMap_new

\* a server constructed over a non-empty snapshot, with an assignment path
\* given and a default candidate present
C29_Witness ==
    /\ app.phase = "booted"
    /\ app.boot.file.state = "json"
    /\ load_from_file(app.boot.file).dm # DeviceMap_new
    /\ app.boot.path = SomePath(TomlT)
    /\ app.boot.cands[1] = TomlD
    /\ store = load_from_file(app.boot.file).dm

----------------------------------------------------------------------------
(* Claims about the body-layout detector (specification SpecH)             *)

\* the parameters of a body under the rule that the payload fits a layout
\* when its expected length is the number of bytes after that layout's header
ExactFitParams(data, command, sub) ==
    LET c4 == u16_from_le_bytes(At(data, 10), At(data, 11))
        c3 == u16_from_le_bytes(At(data, 8), At(data, 9))
        bits == command \in {CMD_WRITE, CMD_WRITE_EXT} /\ sub \in {1, 3}
        exp(c) == IF bits THEN (c + 1) \div 2 ELSE c * 2
        fits4 == Len(data) - 12 = exp(c4)
        fits3 == Len(data) - 10 = exp(c3)
        r == [some |-> TRUE, off |-> 12, count |-> c4,
              device |-> u16_from_le_bytes(At(data, 8), At(data, 9)),
              start |-> << At(data, 7),
                           At(data, 4) + 256 * At(data, 5) + 65536 * At(data, 6) >>]
        q == [some |-> TRUE, off |-> 10, count |-> c3, device |-> At(data, 7),
              start |-> Usize(At(data, 4) + 256 * At(data, 5) + 65536 * At(data, 6))]
    IN IF Len(data) < 10 THEN NoParams
       ELSE IF Len(data) < 12 THEN q
       ELSE IF fits3 /\ ~fits4 THEN q
       ELSE r

\* C30: with both headers present the detector takes the layout whose
\* expected payload length is exactly the number of bytes after its header,
\* the R-series one when both or neither fit; with 10 or 11 bytes it takes
\* the Q-series layout and with fewer than 10 it yields no parameters.
C30_DetectorPicksExactFit ==
    (hphase # "idle" /\ Len(hlast.req.body) >= 4)
      => LET data == hlast.req.body
             command == u16_from_le_bytes(At(data, 0), At(data, 1))
             sub == u16_from_le_bytes(At(data, 2), At(data, 3))
         IN read_start_and_device_and_count(data, command, sub)
              = ExactFitParams(data, command, sub)

----------------------------------------------------------------------------
(* Claims about the accumulator of a connection (specification Spec)       *)

RECURSIVE Concat(_)
Concat(q) == IF q = << >> THEN << >> ELSE Head(q) \o Concat(Tail(q))

\* the frames taken out of the accumulator of connection c so far
Consumed(c) == [i \in 1 .. Len(hist[c]) |-> hist[c][i].frame]

\* the bytes the server has read on connection c so far
Received(c) ==
    LET all == Concat(sent[c])
    IN SubSeq(all, 1, Len(all) - Len(wire[c]) - Len(tosend[c]))

\* C31: on every connection the frames taken out of the accumulator so far,
\* in order, followed by the accumulator are the bytes received so far: a
\* detection takes exactly the frame's bytes from the front and nothing
\* else, so bytes of a following frame are neither lost, duplicated nor
\* reordered.
C31_AccumulatorConserved ==
    \A c \in Conns :
      /\ Concat(Consumed(c)) \o acc[c] = Received(c)
      /\ Received(c) \o wire[c] \o tosend[c] = Concat(sent[c])

\* a frame was taken out while a following frame of the same read stays in
\* the accumulator
C31_Witness ==
    \E c \in Conns :
      /\ Len(hist[c]) = 1
      /\ pc[c] \in {"dispatch", "write"}
      /\ acc[c] # << >>
      /\ Len(sent[c]) = 2
      /\ acc[c] = sent[c][2]

----------------------------------------------------------------------------
(* Claims about the locks of save_snapshot (specification SpecStop)        *)

\* save_snapshot has serialized the store and its file write has not returned
FileWritePending == app.stop = "snapshotted"

\* C32: save_snapshot holds the store's read lock only while it serializes:
\* while the file write is pending the read lock is free, so a connection
\* task that wants the write lock is not kept waiting by the file write.
C32_SnapshotLockReleasedBeforeWrite ==
    FileWritePending => ~StoreReadLocked

----------------------------------------------------------------------------
(* Claims about concurrent requests (specification SpecRace)               *)

\* the payload the reader's request gets from store s
AnswerIn(s) == handle_request_and_apply_store(s, registry, app.rd.req.body).payload

\* the states the store went through
StoreStates == IF app.wr.done THEN {app.wr.pre, app.wr.post} ELSE {store}

\* C33: a write applies all its words under one write lock and a read-words
\* request reads all its words under one read lock: the response of a
\* read-words request served while another connection writes is the answer
\* from the store before the write or from the store after it.
C33_WordOpsAtomic ==
    (app.rd.state = "done" /\ app.rd.req.kind = "read")
      => \E s \in StoreStates : app.rd.payload = AnswerIn(s)

\* a read of two words answered after a write, made while the request was
\* being served, changed both
C33_Witness ==
    /\ app.rd.state = "done"
    /\ app.rd.req.kind = "read"
    /\ app.wr.during
    /\ Len(app.rd.vals) = 2
    /\ \A i \in 1 .. 2 :
         get_words(app.wr.pre, key_literal(app.rd.p.device), app.rd.p.start, 2)[i]
           # app.rd.vals[i]
    /\ app.rd.payload = AnswerIn(app.wr.post)

\* C34: the response of a read-bits request served while another connection
\* writes bits of its range is the answer from the store before the write
\* or from the store after it, never bits of both.
C34_ReadBitsOneState ==
    (app.rd.state = "done" /\ app.rd.req.kind = "readbits")
      => \E s \in StoreStates : app.rd.payload = AnswerIn(s)

----------------------------------------------------------------------------
(* Claims about rejected requests (specification SpecErr)                  *)

\* C35: whenever the handler returns an error the store is as it was before
\* the call, with and without the registry: no key was created and no word
\* changed.
C35_ErrorLeavesStore ==
    (hphase = "one" /\ ~hlast.ok) => store = hlast.pre

\* a write that declares more words than it carries was rejected on a store
\* that holds words
C35_Witness ==
    /\ hphase = "one"
    /\ ~hlast.ok
    /\ hlast.req.kind = "shortwrite"
    /\ hlast.req.words # << >>
    /\ hlast.pre # DeviceMap_new
    /\ store = hlast.pre

----------------------------------------------------------------------------
(* Claims about decoding well-formed requests (specification SpecH)        *)

\* the parameters a request was built from
BuiltParams(req) ==
    [some |-> TRUE,
     start |-> Usize(req.addr),
     device |-> req.dev,
     count |-> IF req.kind = "write" THEN Len(req.words) ELSE req.words[1],
     off |-> IF req.layout = "Q" THEN 10 ELSE 12]

\* C36: every well-formed Q-series read or write request is decoded with the
\* start address, device code and count it was built from and data offset
\* 10, every well-formed R-series request with its values and data offset
\* 12; a Q-series write whose first data word is smaller than its count is
\* not decoded as R-series.
C36_DecodeInvertsEncode ==
    (hphase # "idle" /\ hlast.req.kind \in {"read", "write"})
      => LET data == hlast.req.body
         IN read_start_and_device_and_count(
                data, u16_from_le_bytes(At(data, 0), At(data, 1)),
                u16_from_le_bytes(At(data, 2), At(data, 3)))
              = BuiltParams(hlast.req)

----------------------------------------------------------------------------
(* Claims about device codes (specification SpecWide)                      *)

\* C37: a handler write for one device code changes no word that a handler
\* read for a different device code returns, for the 8-bit codes of the
\* Q-series layout and the 16-bit codes of the R-series layout.
C37_DeviceCodesDisjoint ==
    (/\ hphase = "two"
     /\ hprev.req.kind = "write"
     /\ hlast.req.kind = "read"
     /\ hprev.req.dev # hlast.req.dev)
      => hlast.payload
           = handle_request_and_apply_store(hprev.pre, registry, hlast.req.body).payload

-----------------------------------------------------------------------------
\* C38: a stop_mock that runs after a start_mock call has returned aborts
\* every listener that call started: once stop_mock has returned, the
\* listener of the first start_mock call (which returned before stop_mock
\* began) is not live, whatever the moment its background task bound the
\* listener and recorded the handle.
C38_StopAbortsStartedListeners ==
    app.stop = "returned" => app.accept[1] # "live"

-----------------------------------------------------------------------------
\* C39: for every frame taken out of the accumulator of a TCP connection,
\* either all bytes of its response frame are handed to the socket or the
\* connection is closed by forced RST: a connection on which a response was
\* handed over in part, or could not be handed over, is closed.
C39_ResponseWholeOrRst ==
    \A c \in Conns :
      \A i \in 1 .. Len(hist[c]) :
        hist[c][i].st \in {"short", "failed"}
          => pc[c] = "closed" /\ cause[c] = "write_error"

-----------------------------------------------------------------------------
\* more than one frame's worth of bytes: a whole frame, or as many bytes as
\* the longest header when no frame length can be told yet
FrameOrMore(a) ==
    LET d == detect_frame(a)
    IN IF d.kind = "frame" THEN Len(a) >= d.frame_len ELSE Len(a) >= 15

============================================================================
